---- MODULE Spec2Model ----
(***************************************************************************)
(* A model of the ongoku command-line tool: project resolution             *)
(* (findProject), the git working copy driven by GitClient (commitAndPush, *)
(* configureWithToken, isTokenValid) and the push command.                 *)
(*                                                                         *)
(* Strings that the code inspects character by character (the UUID regex,  *)
(* toLowerCase, split, includes) are sequences of one-character strings.   *)
(***************************************************************************)
EXTENDS Integers, Sequences, FiniteSets, TLC

\* JavaScript's null / undefined, and "no value yet" for result variables.
\* The text values: a string is a sequence of characters, and JavaScript's
\* undefined and null (where a string is expected) are one-element sentinels
\* that no text equals.
Undefined == <<"<undefined>">>
Null == <<"<null>">>
\* A result variable before the operation has produced its result.
None == "none"
\* The same for a variable that holds a record.
Pending == [pending |-> TRUE]

\* JavaScript truthiness of a string-or-absent value ('' is falsy).
Truthy(s) == s # Undefined /\ s # Null /\ s # <<>>

(***************************************************************************)
(* String helpers: what the JavaScript string methods used by findProject  *)
(* compute.                                                                *)
(***************************************************************************)
UpperChars == <<"A", "B", "C", "D", "E", "F", "P", "X">>
LowerChars == <<"a", "b", "c", "d", "e", "f", "p", "x">>

\* String.prototype.toLowerCase on one character (of the alphabet used here).
LowerChar(c) ==
  IF \E i \in 1..Len(UpperChars) : UpperChars[i] = c
  THEN LowerChars[CHOOSE i \in 1..Len(UpperChars) : UpperChars[i] = c]
  ELSE c

ToLowerCase(s) == [i \in 1..Len(s) |-> LowerChar(s[i])]

\* [0-9a-f] under the regex's i flag.
HexChars ==
  {"0", "1", "2", "3", "4", "5", "6", "7", "8", "9",
   "a", "b", "c", "d", "e", "f", "A", "B", "C", "D", "E", "F"}

\* The positions of the four dashes of the 8-4-4-4-12 shape.
UuidDashes == {9, 14, 19, 24}
UuidLen == 36

\* projectName.match(/^[0-9a-f]{8}-[0-9a-f]{4}-[0-9a-f]{4}-[0-9a-f]{4}-[0-9a-f]{12}$/i)
IsUuidShaped(s) ==
  /\ Len(s) = UuidLen
  /\ \A i \in 1..UuidLen :
       IF i \in UuidDashes THEN s[i] = "-" ELSE s[i] \in HexChars

\* Whether sub occurs in s starting at position i.
OccursAt(s, sub, i) ==
  /\ i >= 1
  /\ i + Len(sub) - 1 <= Len(s)
  /\ \A k \in 1..Len(sub) : s[i + k - 1] = sub[k]

\* The first position >= from at which sub occurs in s, 0 when there is none.
IndexOf(s, sub, from) ==
  IF \E i \in from..(Len(s) + 1) : OccursAt(s, sub, i)
  THEN CHOOSE i \in from..(Len(s) + 1) :
         /\ OccursAt(s, sub, i)
         /\ \A j \in from..(i - 1) : ~OccursAt(s, sub, j)
  ELSE 0

GithubSep == <<"g", "i", "t", "h", "u", "b", ".", "c", "o", "m", "/">>
StrUndefined == <<"u", "n", "d", "e", "f", "i", "n", "e", "d">>

\* url.split('github.com/')[1]: the text between the first and the second
\* occurrence of the separator (or the end), undefined when the separator
\* does not occur.
SplitSecond(s, sep) ==
  LET first == IndexOf(s, sep, 1) IN
  IF first = 0 THEN Undefined
  ELSE LET start == first + Len(sep)
           next == IndexOf(s, sep, start)
       IN IF next = 0 THEN SubSeq(s, start, Len(s))
          ELSE SubSeq(s, start, next - 1)

\* String.prototype.includes(x): x is converted to a string first, so
\* undefined is searched for as the text "undefined".
Includes(s, x) ==
  LET sub == IF x = Undefined THEN StrUndefined ELSE x
  IN IndexOf(s, sub, 1) # 0

(***************************************************************************)
(* Concrete strings of the bounded inputs.                                 *)
(***************************************************************************)
UuidA ==
  <<"0", "a", "1", "b", "2", "c", "3", "d", "-", "0", "0", "0", "0", "-", "4", "0", "0", "0", "-", "8", "0", "0", "0", "-", "0", "0", "0", "0", "0", "0", "0", "0", "0", "0", "0", "a">>
UuidAUpper ==
  <<"0", "A", "1", "B", "2", "C", "3", "D", "-", "0", "0", "0", "0", "-", "4", "0", "0", "0", "-", "8", "0", "0", "0", "-", "0", "0", "0", "0", "0", "0", "0", "0", "0", "0", "0", "A">>
UuidB ==
  <<"0", "a", "1", "b", "2", "c", "3", "d", "-", "0", "0", "0", "0", "-", "4", "0", "0", "0", "-", "8", "0", "0", "0", "-", "0", "0", "0", "0", "0", "0", "0", "0", "0", "0", "0", "b">>
UuidC ==
  <<"0", "a", "1", "b", "2", "c", "3", "d", "-", "0", "0", "0", "0", "-", "4", "0", "0", "0", "-", "8", "0", "0", "0", "-", "0", "0", "0", "0", "0", "0", "0", "0", "0", "0", "0", "c">>
NameProjX ==
  <<"p", "r", "o", "j", "-", "x">>
NameProjXUpper ==
  <<"P", "r", "o", "j", "-", "X">>
NameOther ==
  <<"o", "t", "h", "e", "r">>
UrlGithubProjX ==
  <<"h", "t", "t", "p", "s", ":", "/", "/", "g", "i", "t", "h", "u", "b", ".", "c", "o", "m", "/", "o", "r", "g", "/", "p", "r", "o", "j", "-", "x">>
UrlExampleProjX ==
  <<"h", "t", "t", "p", "s", ":", "/", "/", "g", "i", "t", ".", "e", "x", "a", "m", "p", "l", "e", ".", "c", "o", "m", "/", "o", "r", "g", "/", "p", "r", "o", "j", "-", "x">>
RemoteUndefinedRepo ==
  <<"h", "t", "t", "p", "s", ":", "/", "/", "g", "i", "t", "h", "u", "b", ".", "c", "o", "m", "/", "o", "r", "g", "/", "u", "n", "d", "e", "f", "i", "n", "e", "d">>
RemoteGithubProjX ==
  <<"h", "t", "t", "p", "s", ":", "/", "/", "t", "o", "k", "@", "g", "i", "t", "h", "u", "b", ".", "c", "o", "m", "/", "o", "r", "g", "/", "p", "r", "o", "j", "-", "x">>

(***************************************************************************)
(* State.                                                                  *)
(***************************************************************************)
VARIABLES
  \* --- project resolution (findProject) ---
  projects,       \* the listing the remote service returns, in its order
  projectName,    \* the derived name passed to findProject
  remoteUrl,      \* the origin URL passed to findProject ('' or undefined when absent)
  found,          \* findProject's result
  listingCalls,   \* number of api.getProjects() calls made
  fetched,        \* the listings api.getProjects() returned so far, in call order
  candidates      \* the 'Available projects:' list findProject printed last

resolverVars == <<projects, projectName, remoteUrl, found, listingCalls, fetched,
                  candidates>>

\* const projects = await api.getProjects(): the listing the last call returned.
NoListing == <<Pending>>
listed == IF fetched = <<>> THEN NoListing ELSE fetched[Len(fetched)]

VARIABLES
  \* --- the credential held by a GitClient (GitClient.tokenExpiry) ---
  now,              \* Date.now(), in milliseconds
  tokenExpiry,      \* <<>> for null, <<t>> for the number t
  originUrl,        \* the URL of the working copy's origin remote, Null when there is none
  credentialHelper, \* git config credential.helper, Null when unset
  cfgRet,           \* what the last configureWithToken call returned
  validRet,         \* what the last isTokenValid call returned
  lastOp            \* the GitClient credential operation that ran last

credVars == <<now, tokenExpiry, originUrl, credentialHelper, cfgRet, validRet, lastOp>>

VARIABLES
  \* --- the git working copy ---
  isRepo,       \* projectDir/.git exists
  staged,       \* edits in the index
  unstaged,     \* edits in the working tree only (modified or untracked files)
  stash,        \* the stash entries, newest first, each a set of edits
  head,         \* the commits of the local branch, oldest first
  ahead,        \* how many of the last commits of head origin does not have
  remoteNew,    \* how many commits origin has that the local branch lacks
  remoteTotal   \* how many commits origin received from elsewhere in all

VARIABLES
  \* --- a call of GitClient.commitAndPush ---
  cpPc,         \* where the call is
  cpMessage,    \* its message argument
  cpRet,        \* what it returned (when cpPc is "done" or later)
  spinner,      \* the last text shown by its spinner
  pushError,    \* the error caught from the first push
  pullError,    \* the error caught from a failed recovery step
  logged,       \* the error printed after 'Error details:'
  pre,          \* the state of the working copy when the call began
  log,          \* the git operations of the invocation and how each ended
  retNoop,      \* the value last returned for a clean working copy
  retPushed     \* the value last returned after a commit and push

VARIABLES
  \* --- an invocation of the push command ---
  pushPc,         \* where the invocation is
  authenticated,  \* an account token is stored
  isOngoku,       \* the directory holds ongoku.yaml
  hasSchemaFile,  \* findSchemaFile finds a schema file
  dirName,        \* the basename of the project directory
  schemaOnly,     \* options.schemaOnly
  codeOnly,       \* options.codeOnly
  optMessage,        \* options.message
  gitCredentials, \* what getGitCredentials returned
  schemaPush,     \* the arguments of the pushProjectUpdates call made
  decoded,        \* how decoding the schema file went
  schemaError,    \* the error the schema step reported ('Failed to update schema: ...')
  pushOutcome         \* what the invocation ended with

pushInputs == <<authenticated, isOngoku, hasSchemaFile, dirName, schemaOnly, codeOnly,
                optMessage>>
pushVars == <<pushPc, pushInputs, gitCredentials, schemaPush, decoded, schemaError,
              pushOutcome>>

VARIABLES
  \* --- invocations of the pull command ---
  pullPc,       \* where the current invocation is
  force,        \* options.force
  pullResults   \* how the invocations so far ended, in order

pullVars == <<pullPc, force, pullResults>>

VARIABLES
  \* --- an invocation of the clone command ---
  clonePc,      \* where the invocation is
  cloneArg,     \* the <project-name> argument
  targetDir,    \* the target directory: "absent", "empty" or "nonEmpty"
  cloneForce,   \* options.force
  cloneOutcome  \* what the invocation ended with

cloneVars == <<clonePc, cloneArg, targetDir, cloneForce, cloneOutcome>>

VARIABLES
  \* --- a call of ApiClient.request ---
  apiCall       \* the call made last: its arguments, what it sent, how it ended

VARIABLES
  \* --- a call of GitClient.pull made directly ---
  pullRet       \* <<>> before any call, then <<r>> for the boolean r the call returned

VARIABLES
  \* --- an invocation of the login command ---
  loginPc,      \* where the invocation is
  storedToken,  \* the account token in the keychain, Null when there is none
  userId,       \* config userId, Null when unset
  apiUrl,       \* config apiUrl
  priorToken,   \* the account token that was stored when the invocation began
  loginCount,   \* the number of invocations begun
  loginOutcome  \* what the invocation ended with

loginVars == <<loginPc, storedToken, userId, apiUrl, priorToken, loginCount, loginOutcome>>

vars == <<resolverVars, credVars, pushVars, pullVars, cloneVars, apiCall, pullRet, loginVars,
          isRepo, staged, unstaged, stash, head, ahead,
          remoteNew, remoteTotal, cpPc, cpMessage, cpRet, spinner, pushError,
          pullError, logged, pre, log, retNoop, retPushed>>

wcVars == <<isRepo, staged, unstaged, stash, head, ahead, remoteNew, remoteTotal>>

cpVars == <<cpPc, cpMessage, cpRet, spinner, pushError, pullError, logged, pre, log,
            retNoop, retPushed>>

\* The values the variables of one part hold while another part is checked.
IdleResolver ==
  /\ projects = <<>>
  /\ projectName = <<>>
  /\ remoteUrl = <<>>
  /\ found = Pending
  /\ listingCalls = 0
  /\ fetched = <<>>
  /\ candidates = Pending

IdleCred ==
  /\ now = 0
  /\ tokenExpiry = <<>>
  /\ originUrl = Null
  /\ credentialHelper = Null
  /\ cfgRet = FALSE
  /\ validRet = FALSE
  /\ lastOp = None

IdlePush ==
  /\ pushPc = "idle"
  /\ authenticated = TRUE
  /\ isOngoku = TRUE
  /\ hasSchemaFile = FALSE
  /\ dirName = <<>>
  /\ schemaOnly = FALSE
  /\ codeOnly = FALSE
  /\ optMessage = ""
  /\ gitCredentials = Pending
  /\ schemaPush = Pending
  /\ decoded = Pending
  /\ schemaError = None
  /\ pushOutcome = None

\* No login was invoked and no account token is considered.
IdleLogin ==
  /\ loginPc = "idle"
  /\ storedToken = Null
  /\ userId = Null
  /\ apiUrl = "default"
  /\ priorToken = Null
  /\ loginCount = 0
  /\ loginOutcome = "none"

IdleClone ==
  /\ clonePc = "idle"
  /\ cloneArg = <<>>
  /\ targetDir = "absent"
  /\ cloneForce = FALSE
  /\ cloneOutcome = None
  /\ apiCall = Pending
  /\ pullRet = <<>>
  /\ IdleLogin

IdlePull ==
  /\ pullPc = "idle"
  /\ force = FALSE
  /\ pullResults = <<>>

IdleWc ==
  /\ isRepo = TRUE
  /\ staged = {}
  /\ unstaged = {}
  /\ stash = <<>>
  /\ head = <<>>
  /\ ahead = 0
  /\ remoteNew = 0
  /\ remoteTotal = 0

\* The remembered state of the working copy when no call is running.
NoSnapshot ==
  [edits |-> {}, stashed |-> {}, stash |-> <<>>, head |-> <<>>, remoteTotal |-> 0]

IdleCp ==
  /\ cpPc = "idle"
  /\ cpMessage = ""
  /\ cpRet = FALSE
  /\ spinner = ""
  /\ pushError = None
  /\ pullError = None
  /\ logged = None
  /\ pre = NoSnapshot
  /\ log = <<>>
  /\ retNoop = <<>>
  /\ retPushed = <<>>


(***************************************************************************)
(* findProject (src/utils/common.ts).                                      *)
(***************************************************************************)
\* What Array.prototype.find returns when no element matches.
NotFound == [undefined |-> TRUE]
\* What findProject returns when the listing call throws.
NoProject == [null |-> TRUE]

\* Whatever findProject returned is taken for a project.
IsProjectAlways(p) == TRUE

\* !project
IsProject(p) == p # NotFound /\ p # NoProject

\* Mutant of Find: the last element whose test is true.
FindLast(list, hits) ==
  IF \E i \in 1..Len(list) : hits[i]
  THEN list[CHOOSE i \in 1..Len(list) : hits[i] /\ \A j \in (i + 1)..Len(list) : ~hits[j]]
  ELSE NotFound

\* Array.prototype.find: the first element of list, in listing order, whose
\* test (hits[i], the callback's result on list[i]) is true.
Find(list, hits) ==
  IF \E i \in 1..Len(list) : hits[i]
  THEN list[CHOOSE i \in 1..Len(list) : hits[i] /\ \A j \in 1..(i - 1) : ~hits[j]]
  ELSE NotFound

\* p.id === projectName
MatchesId(p, name) == p.id = name

\* Mutant of MatchesUrl: the whole repository URL is looked for in the remote URL.
MatchesUrlWhole(p, remote) ==
  /\ Truthy(p.github_repo_url)
  /\ Includes(remote, p.github_repo_url)

\* p.github_repo_url && remoteUrl.includes(p.github_repo_url.split('github.com/')[1])
MatchesUrl(p, remote) ==
  /\ Truthy(p.github_repo_url)
  /\ Includes(remote, SplitSecond(p.github_repo_url, GithubSep))

\* p.name.toLowerCase() === projectName.toLowerCase()
MatchesName(p, name) == ToLowerCase(p.name) = ToLowerCase(name)

\* Step 1 of findProject: by id, when the name looks like an id.
StepId(list, name) ==
  IF IsUuidShaped(name)
  THEN Find(list, [i \in 1..Len(list) |-> MatchesId(list[i], name)])
  ELSE NoProject

\* Step 2: by repository URL, when step 1 found nothing and a remote URL is given.
StepUrl(list, name, remote, project) ==
  IF ~IsProject(project) /\ Truthy(remote)
  THEN Find(list, [i \in 1..Len(list) |-> MatchesUrl(list[i], remote)])
  ELSE project

\* Mutant of StepName: the names are compared as they are written.
StepNameCaseSensitive(list, name, project) ==
  IF ~IsProject(project)
  THEN Find(list, [i \in 1..Len(list) |-> list[i].name = name])
  ELSE project

\* Step 3: by case-insensitive name, when steps 1 and 2 found nothing.
StepName(list, name, project) ==
  IF ~IsProject(project)
  THEN Find(list, [i \in 1..Len(list) |-> MatchesName(list[i], name)])
  ELSE project

\* Mutant of FindProject: the name step runs before the id and URL steps.
FindProjectNameFirst(list, name, remote) ==
  LET byName == Find(list, [i \in 1..Len(list) |-> MatchesName(list[i], name)])
  IN IF IsProject(byName) THEN byName
     ELSE StepUrl(list, name, remote, StepId(list, name))

\* The body of findProject's try block, given the listing.
FindProject(list, name, remote) ==
  StepName(list, name, StepUrl(list, name, remote, StepId(list, name)))

(***************************************************************************)
(* Bounded inputs of project resolution.                                   *)
(***************************************************************************)
MaxProjects == 2

ProjectIds == {UuidA, UuidB, UuidC}
ProjectNames == {NameProjXUpper, UuidAUpper, NameOther}
RepoUrls == {Null, UrlGithubProjX, UrlExampleProjX}
DerivedNames == {UuidA, UuidAUpper, NameProjX, NameOther}
RemoteUrls == {<<>>, Undefined, RemoteGithubProjX, UrlExampleProjX, RemoteUndefinedRepo}

ProjectRecords == [id : ProjectIds, name : ProjectNames, github_repo_url : RepoUrls]

\* Listings of at most MaxProjects projects whose ids are pairwise distinct.
Listings ==
  UNION {{l \in [1..n -> ProjectRecords] :
            \A i, j \in 1..n : i # j => l[i].id # l[j].id} : n \in 0..MaxProjects}

InitResolver ==
  /\ IdleCred
  /\ IdlePush
  /\ IdlePull
  /\ IdleClone
  /\ IdleWc
  /\ IdleCp
  /\ projects \in Listings
  /\ projectName \in DerivedNames
  /\ remoteUrl \in RemoteUrls
  /\ found = Pending
  /\ listingCalls = 0
  /\ fetched = <<>>
  /\ candidates = Pending

\* Mutant of GetProjects: a listing obtained earlier is returned again.
GetProjectsCached(server, last) == IF last # NoListing THEN last ELSE server

\* api.getProjects(): a GET /projects request on every call; server is the
\* listing the service holds now, last the listing the previous call returned.
GetProjects(server, last) == server

\* if (!project && spinner) { ... 'Available projects:' ... projects.forEach(...) }
\* (push, pull and clone all pass their spinner.)
Candidates(list, project) == IF IsProject(project) THEN Pending ELSE list

\* findProject when api.getProjects() returns the listing.
Resolve ==
  /\ found = Pending
  /\ fetched' = Append(fetched, GetProjects(projects, listed))
  /\ found' = FindProject(listed', projectName, remoteUrl)
  /\ candidates' = Candidates(listed', found')
  /\ listingCalls' = listingCalls + 1
  /\ UNCHANGED <<projects, projectName, remoteUrl>>
  /\ UNCHANGED <<credVars, wcVars, cpVars, pushVars, pullVars, cloneVars,
                 apiCall, pullRet, loginVars>>

\* findProject when api.getProjects() throws: the catch block returns null.
ResolveListingFails ==
  /\ found = Pending
  /\ found' = NoProject
  /\ candidates' = Pending
  /\ listingCalls' = listingCalls + 1
  /\ UNCHANGED fetched
  /\ UNCHANGED <<projects, projectName, remoteUrl>>
  /\ UNCHANGED <<credVars, wcVars, cpVars, pushVars, pullVars, cloneVars,
                 apiCall, pullRet, loginVars>>

NextResolver == Resolve \/ ResolveListingFails

SpecResolver == InitResolver /\ [][NextResolver]_vars

(***************************************************************************)
(* Repeated resolution against a listing that changes on the service.      *)
(***************************************************************************)
MaxResolutions == 2

ListingRecords ==
  {[id |-> UuidA, name |-> NameProjXUpper, github_repo_url |-> UrlGithubProjX],
   [id |-> UuidB, name |-> NameOther, github_repo_url |-> Null]}
ChangingListings == {l \in Listings : \A i \in 1..Len(l) : l[i] \in ListingRecords}

InitListing ==
  /\ IdleCred
  /\ IdlePush
  /\ IdlePull
  /\ IdleClone
  /\ IdleWc
  /\ IdleCp
  /\ projects \in ChangingListings
  /\ projectName \in DerivedNames
  /\ remoteUrl \in {<<>>, RemoteGithubProjX}
  /\ found = Pending
  /\ listingCalls = 0
  /\ fetched = <<>>
  /\ candidates = Pending

\* A project is created, deleted or moved on the service.
ListingChanges ==
  /\ projects' \in ChangingListings \ {projects}
  /\ UNCHANGED <<projectName, remoteUrl, found, listingCalls, fetched, candidates>>
  /\ UNCHANGED <<credVars, wcVars, cpVars, pushVars, pullVars, cloneVars,
                 apiCall, pullRet, loginVars>>

\* A later command calls findProject again with the same hints.
ResolveAgain ==
  /\ found # Pending
  /\ listingCalls < MaxResolutions
  /\ found' = Pending
  /\ UNCHANGED <<projects, projectName, remoteUrl, listingCalls, fetched, candidates>>
  /\ UNCHANGED <<credVars, wcVars, cpVars, pushVars, pullVars, cloneVars,
                 apiCall, pullRet, loginVars>>

NextListing == Resolve \/ ResolveListingFails \/ ListingChanges \/ ResolveAgain

SpecListing == InitListing /\ [][NextListing]_vars

(***************************************************************************)
(* The credential of a GitClient: configureWithToken and isTokenValid      *)
(* (src/utils/common.ts).                                                  *)
(***************************************************************************)
\* const bufferMs = 5 * 60 * 1000
BufferMs == 300000
\* Date.now() + 3600 * 1000
OneHourMs == 3600000

\* Mutant of IsTokenValid: the comparison admits the instant expiry - buffer.
IsTokenValidInclusive(expiry, t) ==
  IF expiry = <<>> \/ expiry = <<0>> THEN FALSE
  ELSE t <= expiry[1] - BufferMs

\* GitClient.isTokenValid, of the recorded expiry and the current time.
\* !this.tokenExpiry holds for null and for 0.
IsTokenValid(expiry, t) ==
  IF expiry = <<>> \/ expiry = <<0>> THEN FALSE
  ELSE t < expiry[1] - BufferMs

\* s.replace(pat, rep): the first occurrence of pat replaced, s when there is none.
ReplaceFirst(s, pat, rep) ==
  LET i == IndexOf(s, pat, 1) IN
  IF i = 0 THEN s
  ELSE SubSeq(s, 1, i - 1) \o rep \o SubSeq(s, i + Len(pat), Len(s))

HttpsPrefix == <<"h", "t", "t", "p", "s", ":", "/", "/">>
At == <<"@">>

\* repoUrl.replace('https://', `https://${token}@`)
AuthUrl(token, repoUrl) == ReplaceFirst(repoUrl, HttpsPrefix, HttpsPrefix \o token \o At)

CacheHelper == "cache --timeout=3600"

\* The expiry configureWithToken records: expiresAt when truthy, else now + 1 hour.
RecordedExpiry(expiresAt, t) ==
  IF expiresAt = <<>> \/ expiresAt = <<0>> THEN <<t + OneHourMs>> ELSE expiresAt

\* The outcomes of the git operations configureWithToken awaits, in order:
\* remote set-url, addConfig, getRemotes.
ConfigureOutcomes == {"ok", "setUrlFails", "addConfigFails", "getRemotesFails"}

\* GitClient.configureWithToken(token, repoUrl, expiresAt) whose git
\* operations end as `outcome` says. `git remote set-url origin` fails when
\* the working copy has no origin remote.
ConfigureWithToken(token, repoUrl, expiresAt, outcome) ==
  LET setUrlOk == outcome # "setUrlFails" /\ originUrl # Null
      addConfigOk == setUrlOk /\ outcome # "addConfigFails"
      readBackOk == addConfigOk /\ outcome # "getRemotesFails"
  IN /\ originUrl' = IF setUrlOk THEN AuthUrl(token, repoUrl) ELSE originUrl
     /\ credentialHelper' = IF addConfigOk THEN CacheHelper ELSE credentialHelper
     /\ tokenExpiry' = IF addConfigOk THEN RecordedExpiry(expiresAt, now) ELSE tokenExpiry
     /\ cfgRet' = readBackOk

(***************************************************************************)
(* Bounded inputs of the credential operations.                            *)
(***************************************************************************)
\* An expiry instant the server issues (milliseconds).
ExpiryT == 900000

Tokens == {<<"t", "o", "k">>}
\* A repository URL whose scheme is not https.
UrlHttpProjX ==
  <<"h", "t", "t", "p", ":", "/", "/", "g", "i", "t", "h", "u", "b", ".", "c", "o", "m", "/", "o", "r", "g", "/", "p", "r", "o", "j", "-", "x">>
\* repoUrl is a string the token endpoint sends: any scheme.
IssuedRepoUrls == {UrlGithubProjX, UrlHttpProjX}
\* expires_at as the server sends it: omitted, 0, or an instant.
ExpiresAtInputs == {<<>>, <<0>>, <<ExpiryT>>, <<ExpiryT + 1>>}

\* The instants at which the clock is observed: around each issued expiry
\* minus the buffer, and around the default expiry of a credential applied
\* at instant 0 or 1.
Instants ==
  {0, 1}
    \cup {ExpiryT - BufferMs + k : k \in -1..2}
    \cup {ExpiryT, ExpiryT + 1}
    \cup {OneHourMs - BufferMs + k : k \in -1..1}

InitCred ==
  /\ IdleResolver
  /\ IdlePush
  /\ IdlePull
  /\ IdleClone
  /\ IdleWc
  /\ IdleCp
  /\ now = 0
  /\ tokenExpiry = <<>>
  /\ originUrl \in {Null, UrlGithubProjX}
  /\ credentialHelper = Null
  /\ cfgRet = FALSE
  /\ validRet = FALSE
  /\ lastOp = None

\* Time passes.
Tick ==
  /\ \E t \in Instants : t > now /\ now' = t
  /\ lastOp' = "tick"
  /\ UNCHANGED <<tokenExpiry, originUrl, credentialHelper, cfgRet, validRet>>
  /\ UNCHANGED <<resolverVars, wcVars, cpVars, pushVars, pullVars, cloneVars,
                 apiCall, pullRet, loginVars>>

\* A call of git.configureWithToken.
ConfigureCall ==
  /\ \E token \in Tokens, repoUrl \in IssuedRepoUrls,
        expiresAt \in ExpiresAtInputs, outcome \in ConfigureOutcomes :
       ConfigureWithToken(token, repoUrl, expiresAt, outcome)
  /\ lastOp' = "configureWithToken"
  /\ UNCHANGED <<now, validRet>>
  /\ UNCHANGED <<resolverVars, wcVars, cpVars, pushVars, pullVars, cloneVars,
                 apiCall, pullRet, loginVars>>

\* A call of git.isTokenValid().
IsTokenValidCall ==
  /\ validRet' = IsTokenValid(tokenExpiry, now)
  /\ lastOp' = "isTokenValid"
  /\ UNCHANGED <<now, tokenExpiry, originUrl, credentialHelper, cfgRet>>
  /\ UNCHANGED <<resolverVars, wcVars, cpVars, pushVars, pullVars, cloneVars,
                 apiCall, pullRet, loginVars>>

NextCred == Tick \/ ConfigureCall \/ IsTokenValidCall

SpecCred == InitCred /\ [][NextCred]_vars

(***************************************************************************)
(* The git working copy, as the git command driver changes it.             *)
(*                                                                         *)
(* An edit is a change the user made to the working tree.  It is unstaged  *)
(* or staged (the index), in a stash entry, or in a commit of the local    *)
(* branch.  head is the local branch, oldest commit first; its last        *)
(* `ahead` commits are not on origin, and origin has remoteNew commits the *)
(* local branch does not have.                                             *)
(***************************************************************************)
\* Mutant of IsGitRepository: every directory is taken for a repository.
IsGitRepositoryAlways(dotGit) == TRUE

\* GitClient.isGitRepository(): fs.existsSync(path.join(projectDir, '.git')).
IsGitRepository(dotGit) == dotGit

\* status.isClean(): nothing staged, unstaged or untracked.
IsClean == staged = {} /\ unstaged = {}

\* The edits held by the commits of a sequence of commits.
RECURSIVE EditsOf(_)
EditsOf(commits) ==
  IF commits = <<>> THEN {}
  ELSE Head(commits).edits \cup EditsOf(Tail(commits))

\* The edits held by the entries of the stash.
RECURSIVE StashedEdits(_)
StashedEdits(entries) ==
  IF entries = <<>> THEN {}
  ELSE Head(entries) \cup StashedEdits(Tail(entries))

\* A commit that origin received from elsewhere.
RemoteCommit == [msg |-> "remote", edits |-> {}, by |-> "remote"]

\* git add .
GitAdd ==
  /\ staged' = staged \cup unstaged
  /\ unstaged' = {}
  /\ UNCHANGED <<isRepo, stash, head, ahead, remoteNew, remoteTotal>>

\* git commit -m msg: fails with "nothing to commit" when the index is empty.
CanCommit == staged # {}
\* --no-gpg-sign is passed: the commit is made unsigned.
GitCommit(msg) ==
  /\ head' = Append(head, [msg |-> msg, edits |-> staged, by |-> "local",
                           gpgSign |-> FALSE])
  /\ ahead' = ahead + 1
  /\ staged' = {}
  /\ UNCHANGED <<isRepo, unstaged, stash, remoteNew, remoteTotal>>

\* git push: rejected (non-fast-forward) when origin has commits the local
\* branch does not have; otherwise origin receives the local commits.
CanPush == remoteNew = 0
GitPush ==
  /\ ahead' = 0
  /\ UNCHANGED <<isRepo, staged, unstaged, stash, head, remoteNew, remoteTotal>>

\* git stash: with a clean tree it saves nothing and succeeds ("No local
\* changes to save"); otherwise the uncommitted changes become a stash entry.
GitStash ==
  /\ IF IsClean
     THEN UNCHANGED <<staged, unstaged, stash>>
     ELSE /\ stash' = <<staged \cup unstaged>> \o stash
          /\ staged' = {}
          /\ unstaged' = {}
  /\ UNCHANGED <<isRepo, head, ahead, remoteNew, remoteTotal>>

\* git pull --ff-only: up to date when origin has nothing new; fast-forwards
\* when the local branch has no commit of its own; refuses ("Not possible to
\* fast-forward") when both sides have commits the other lacks.
CanFastForward == remoteNew = 0 \/ ahead = 0
GitPullFfOnly ==
  /\ head' = head \o [i \in 1..remoteNew |-> RemoteCommit]
  /\ remoteNew' = 0
  /\ UNCHANGED <<isRepo, staged, unstaged, stash, ahead, remoteTotal>>

\* git stash pop: fails with "No stash entries found" on an empty stash;
\* otherwise the newest entry goes back to the working tree.
CanPop == stash # <<>>
GitStashPop ==
  /\ unstaged' = unstaged \cup Head(stash)
  /\ stash' = Tail(stash)
  /\ UNCHANGED <<isRepo, staged, head, ahead, remoteNew, remoteTotal>>

(***************************************************************************)
(* GitClient.commitAndPush (src/utils/common.ts), one action per awaited   *)
(* git operation.  A git operation ends "ok", "rejected" (git refuses it   *)
(* in the state the working copy is in) or "failed" (it fails for a reason *)
(* outside the working copy: network, authentication, lock, hook).         *)
(***************************************************************************)
\* What a call of commitAndPush leaves alone besides the working copy.
cpFrame == <<resolverVars, credVars, pushVars, pullVars, cloneVars, apiCall, pullRet, loginVars>>

MsgNotRepo == "Not a git repository"
MsgNoChanges == "No changes to commit"
MsgPushed == "Changes committed and pushed successfully"
MsgFailed == "Failed to commit and push changes"
FallbackMessage == "Update from Ongoku CLI"

\* Mutant of RecoveryMessage: the recovery commits with the caller's message.
RecoveryMessageOfCaller(message) == message

\* The message of the commit the recovery makes, whatever the caller's was.
RecoveryMessage(message) == FallbackMessage

\* The operation op ended res: appended to the invocation's log.
Logged(op, res) == log' = Append(log, [op |-> op, res |-> res])

\* The number of log entries of operation op.
Count(op) == Cardinality({i \in 1..Len(log) : log[i].op = op})

\* Entry into commitAndPush(message): the spinner starts and the state the
\* call found is remembered.
CpEnter(message) ==
  /\ cpPc' = "isRepo"
  /\ cpMessage' = message
  /\ cpRet' = FALSE
  /\ spinner' = "Committing and pushing changes..."
  /\ pushError' = None
  /\ pullError' = None
  /\ logged' = None
  /\ pre' = [edits |-> staged \cup unstaged, stashed |-> StashedEdits(stash),
             stash |-> stash, head |-> head, remoteTotal |-> remoteTotal]

\* commitAndPush returns ret after the spinner showed msg; err is the error
\* printed after 'Error details:' (None when nothing was printed).
CpFinish(ret, msg, err) ==
  /\ cpPc' = "done"
  /\ cpRet' = ret
  /\ spinner' = msg
  /\ logged' = err

\* Mutant of CpCatch: the outer catch returns true.
CpCatchReturnsTrue(err) == CpFinish(TRUE, MsgFailed, err)

\* The outer catch: spinner.fail, the error is printed, false is returned.
CpCatch(err) == CpFinish(FALSE, MsgFailed, err)

\* if (!await this.isGitRepository()) { spinner.fail(...); return false; }
CpCheckRepo ==
  /\ cpPc = "isRepo"
  /\ UNCHANGED cpFrame
  /\ IF IsGitRepository(isRepo)
     THEN cpPc' = "status" /\ UNCHANGED <<cpRet, spinner, logged>>
     ELSE CpFinish(FALSE, MsgNotRepo, None)
  /\ UNCHANGED <<cpMessage, pushError, pullError, pre, log, retNoop, retPushed>>
  /\ UNCHANGED wcVars

\* Mutant of CpStatus: a clean working copy is reported as a failure.
CpStatusCleanFails ==
  /\ cpPc = "status"
  /\ UNCHANGED cpFrame
  /\ \/ /\ IsClean
        /\ Logged("status", "ok")
        /\ CpFinish(FALSE, MsgNoChanges, None)
        /\ retNoop' = <<FALSE>>
     \/ /\ ~IsClean
        /\ Logged("status", "ok")
        /\ cpPc' = "add"
        /\ UNCHANGED <<cpRet, spinner, logged, retNoop>>
  /\ UNCHANGED <<cpMessage, pushError, pullError, pre, retPushed>>
  /\ UNCHANGED wcVars

\* const status = await this.git.status();
\* if (status.isClean()) { spinner.info('No changes to commit'); return true; }
CpStatus ==
  /\ cpPc = "status"
  /\ UNCHANGED cpFrame
  /\ \/ /\ IsClean
        /\ Logged("status", "ok")
        /\ CpFinish(TRUE, MsgNoChanges, None)
        /\ retNoop' = <<TRUE>>
     \/ /\ ~IsClean
        /\ Logged("status", "ok")
        /\ cpPc' = "add"
        /\ UNCHANGED <<cpRet, spinner, logged, retNoop>>
     \/ /\ Logged("status", "failed")
        /\ CpCatch("status")
        /\ UNCHANGED retNoop
  /\ UNCHANGED <<cpMessage, pushError, pullError, pre, retPushed>>
  /\ UNCHANGED wcVars

\* await this.git.add('.');
CpAdd ==
  /\ cpPc = "add"
  /\ UNCHANGED cpFrame
  /\ \/ /\ GitAdd
        /\ Logged("add", "ok")
        /\ cpPc' = "commit"
        /\ UNCHANGED <<cpRet, spinner, logged>>
     \/ /\ UNCHANGED wcVars
        /\ Logged("add", "failed")
        /\ CpCatch("add")
  /\ UNCHANGED <<cpMessage, pushError, pullError, pre, retNoop, retPushed>>

\* await this.git.raw(['commit', '-m', message, '--no-gpg-sign']);
CpCommit ==
  /\ cpPc = "commit"
  /\ UNCHANGED cpFrame
  /\ \/ /\ CanCommit
        /\ GitCommit(cpMessage)
        /\ Logged("commit", "ok")
        /\ cpPc' = "push"
        /\ UNCHANGED <<cpRet, spinner, logged>>
     \/ /\ UNCHANGED wcVars
        /\ Logged("commit", IF CanCommit THEN "failed" ELSE "rejected")
        /\ CpCatch("commit")
  /\ UNCHANGED <<cpMessage, pushError, pullError, pre, retNoop, retPushed>>

\* try { await this.git.push(); } catch (pushError) { ... }
\* and, after a successful push, spinner.succeed(...); return true;
CpPush ==
  /\ cpPc = "push"
  /\ UNCHANGED cpFrame
  /\ \/ /\ CanPush
        /\ GitPush
        /\ Logged("push", "ok")
        /\ CpFinish(TRUE, MsgPushed, None)
        /\ retPushed' = <<TRUE>>
        /\ UNCHANGED pushError
     \/ /\ UNCHANGED wcVars
        /\ Logged("push", IF CanPush THEN "failed" ELSE "rejected")
        /\ pushError' = "push"
        /\ cpPc' = "stash"
        /\ UNCHANGED <<cpRet, spinner, logged, retPushed>>
  /\ UNCHANGED <<cpMessage, pullError, pre, retNoop>>

\* A step of the recovery threw: the inner catch takes over.
RecoveryThrows(op) ==
  /\ pullError' = op
  /\ cpPc' = "restore"

\* Mutant of CpStash: the commit just made is unwound by discarding it
\* (git reset --hard HEAD~1) instead of stashing.
CpStashResetsHard ==
  /\ cpPc = "stash"
  /\ UNCHANGED cpFrame
  /\ head' = SubSeq(head, 1, Len(head) - 1)
  /\ ahead' = ahead - 1
  /\ UNCHANGED <<isRepo, staged, unstaged, stash, remoteNew, remoteTotal>>
  /\ Logged("stash", "ok")
  /\ cpPc' = "ffpull"
  /\ UNCHANGED pullError
  /\ UNCHANGED <<cpMessage, cpRet, spinner, pushError, logged, pre, retNoop, retPushed>>

\* await this.git.stash();
CpStash ==
  /\ cpPc = "stash"
  /\ UNCHANGED cpFrame
  /\ \/ /\ GitStash
        /\ Logged("stash", "ok")
        /\ cpPc' = "ffpull"
        /\ UNCHANGED pullError
     \/ /\ UNCHANGED wcVars
        /\ Logged("stash", "failed")
        /\ RecoveryThrows("stash")
  /\ UNCHANGED <<cpMessage, cpRet, spinner, pushError, logged, pre, retNoop, retPushed>>

\* await this.git.pull(['--ff-only']);
CpFfPull ==
  /\ cpPc = "ffpull"
  /\ UNCHANGED cpFrame
  /\ \/ /\ CanFastForward
        /\ GitPullFfOnly
        /\ Logged("pull --ff-only", "ok")
        /\ cpPc' = "pop"
        /\ UNCHANGED pullError
     \/ /\ UNCHANGED wcVars
        /\ Logged("pull --ff-only", IF CanFastForward THEN "failed" ELSE "rejected")
        /\ RecoveryThrows("pull --ff-only")
  /\ UNCHANGED <<cpMessage, cpRet, spinner, pushError, logged, pre, retNoop, retPushed>>

\* await this.git.stash(['pop']);
CpPop ==
  /\ cpPc = "pop"
  /\ UNCHANGED cpFrame
  /\ \/ /\ CanPop
        /\ GitStashPop
        /\ Logged("stash pop", "ok")
        /\ cpPc' = "readd"
        /\ UNCHANGED pullError
     \/ /\ UNCHANGED wcVars
        /\ Logged("stash pop", IF CanPop THEN "failed" ELSE "rejected")
        /\ RecoveryThrows("stash pop")
  /\ UNCHANGED <<cpMessage, cpRet, spinner, pushError, logged, pre, retNoop, retPushed>>

\* await this.git.add('.');   (the files again)
CpReAdd ==
  /\ cpPc = "readd"
  /\ UNCHANGED cpFrame
  /\ \/ /\ GitAdd
        /\ Logged("add again", "ok")
        /\ cpPc' = "recommit"
        /\ UNCHANGED pullError
     \/ /\ UNCHANGED wcVars
        /\ Logged("add again", "failed")
        /\ RecoveryThrows("add again")
  /\ UNCHANGED <<cpMessage, cpRet, spinner, pushError, logged, pre, retNoop, retPushed>>

\* await this.git.raw(['commit', '-m', 'Update from Ongoku CLI', '--no-gpg-sign']);
CpReCommit ==
  /\ cpPc = "recommit"
  /\ UNCHANGED cpFrame
  /\ \/ /\ CanCommit
        /\ GitCommit(RecoveryMessage(cpMessage))
        /\ Logged("commit again", "ok")
        /\ cpPc' = "repush"
        /\ UNCHANGED pullError
     \/ /\ UNCHANGED wcVars
        /\ Logged("commit again", IF CanCommit THEN "failed" ELSE "rejected")
        /\ RecoveryThrows("commit again")
  /\ UNCHANGED <<cpMessage, cpRet, spinner, pushError, logged, pre, retNoop, retPushed>>

\* Mutant of CpRePush: a second push that fails is tried once more.
CpRePushRetries ==
  /\ cpPc = "repush"
  /\ UNCHANGED cpFrame
  /\ \/ /\ CanPush
        /\ GitPush
        /\ Logged("push", "ok")
        /\ CpFinish(TRUE, MsgPushed, None)
        /\ retPushed' = <<TRUE>>
        /\ UNCHANGED pullError
     \/ /\ UNCHANGED wcVars
        /\ Logged("push", IF CanPush THEN "failed" ELSE "rejected")
        /\ IF Count("push") >= 2
           THEN RecoveryThrows("push again")
           ELSE cpPc' = "repush" /\ UNCHANGED pullError
        /\ UNCHANGED <<cpRet, spinner, logged, retPushed>>
  /\ UNCHANGED <<cpMessage, pushError, pre, retNoop>>

\* await this.git.push();   (the second attempt) and, when it succeeds,
\* spinner.succeed(...); return true;
CpRePush ==
  /\ cpPc = "repush"
  /\ UNCHANGED cpFrame
  /\ \/ /\ CanPush
        /\ GitPush
        /\ Logged("push", "ok")
        /\ CpFinish(TRUE, MsgPushed, None)
        /\ retPushed' = <<TRUE>>
        /\ UNCHANGED pullError
     \/ /\ UNCHANGED wcVars
        /\ Logged("push", IF CanPush THEN "failed" ELSE "rejected")
        /\ RecoveryThrows("push again")
        /\ UNCHANGED <<cpRet, spinner, logged, retPushed>>
  /\ UNCHANGED <<cpMessage, pushError, pre, retNoop>>

\* Mutant of CpRestore: the error of the failed recovery step is thrown.
CpRestoreThrowsPullError ==
  /\ cpPc = "restore"
  /\ UNCHANGED cpFrame
  /\ \/ CanPop /\ GitStashPop /\ Logged("restore stash pop", "ok")
     \/ UNCHANGED wcVars
          /\ Logged("restore stash pop", IF CanPop THEN "failed" ELSE "rejected")
  /\ CpCatch(pullError)
  /\ UNCHANGED <<cpMessage, pushError, pullError, pre, retNoop, retPushed>>

\* catch (pullError) { try { await this.git.stash(['pop']); } catch (stashError) {}
\*                     throw pushError; }
\* and the outer catch that receives pushError.
CpRestore ==
  /\ cpPc = "restore"
  /\ UNCHANGED cpFrame
  /\ \/ CanPop /\ GitStashPop /\ Logged("restore stash pop", "ok")
     \/ UNCHANGED wcVars
          /\ Logged("restore stash pop", IF CanPop THEN "failed" ELSE "rejected")
  /\ CpCatch(pushError)
  /\ UNCHANGED <<cpMessage, pushError, pullError, pre, retNoop, retPushed>>

\* One step of a running commitAndPush call.
CpStep ==
  \/ CpCheckRepo \/ CpStatus \/ CpAdd \/ CpCommit \/ CpPush
  \/ CpStash \/ CpFfPull \/ CpPop \/ CpReAdd \/ CpReCommit \/ CpRePush
  \/ CpRestore

CpRunning == cpPc \notin {"idle", "done"}

(***************************************************************************)
(* GitClient used directly: calls of commitAndPush on a working copy that  *)
(* the user edits between calls and whose origin advances at any time.     *)
(***************************************************************************)
MaxEdits == 2
MaxRemoteCommits == 2
MaxPulls == 2

Edits == 1..MaxEdits
CommitMessages == {"fix"}

\* The edits that are somewhere in the working copy.
KnownEdits == staged \cup unstaged \cup StashedEdits(stash) \cup EditsOf(head)

InitGit ==
  /\ IdleResolver
  /\ IdlePush
  /\ IdlePull
  /\ IdleClone
  /\ IdleCred
  /\ IdleCp
  /\ isRepo \in BOOLEAN
  /\ staged = {}
  /\ unstaged = {}
  /\ stash \in {<<>>, <<{0}>>}
  /\ head = <<>>
  /\ ahead = 0
  /\ remoteNew = 0
  /\ remoteTotal = 0

\* The user changes a file.
UserEdit ==
  /\ cpPc = "idle"
  /\ \E e \in Edits \ KnownEdits :
       /\ unstaged' = unstaged \cup {e}
       /\ UNCHANGED <<isRepo, staged, stash, head, ahead, remoteNew, remoteTotal>>
  /\ UNCHANGED cpVars
  /\ UNCHANGED cpFrame

\* Origin receives a commit from another client or from the server.
RemoteAdvance ==
  /\ remoteTotal < MaxRemoteCommits
  /\ remoteNew' = remoteNew + 1
  /\ remoteTotal' = remoteTotal + 1
  /\ UNCHANGED <<isRepo, staged, unstaged, stash, head, ahead>>
  /\ UNCHANGED cpVars
  /\ UNCHANGED cpFrame

\* git.commitAndPush(message) is called.
CallCommitAndPush ==
  /\ cpPc = "idle"
  /\ \E message \in CommitMessages : CpEnter(message)
  /\ log' = <<>>
  /\ UNCHANGED <<retNoop, retPushed>>
  /\ UNCHANGED wcVars
  /\ UNCHANGED cpFrame

\* The call has returned to its caller: its frame is gone.
CpReturn ==
  /\ cpPc = "done"
  /\ cpPc' = "idle"
  /\ cpMessage' = ""
  /\ cpRet' = FALSE
  /\ spinner' = ""
  /\ pushError' = None
  /\ pullError' = None
  /\ logged' = None
  /\ pre' = NoSnapshot
  /\ log' = <<>>
  /\ UNCHANGED <<retNoop, retPushed>>
  /\ UNCHANGED wcVars
  /\ UNCHANGED cpFrame

NextGit == UserEdit \/ RemoteAdvance \/ CallCommitAndPush \/ CpStep \/ CpReturn

SpecGit == InitGit /\ [][NextGit]_vars

\* Every awaited git operation completes, so a running call takes its next step.
FairSpecGit == SpecGit /\ WF_vars(CpStep)

(***************************************************************************)
(* The push command (src/commands/push.ts), one action per awaited step.   *)
(***************************************************************************)
ProjectPrefix == <<"p", "r", "o", "j", "e", "c", "t", "-">>

\* getProjectIdentifiers: the directory's basename without a leading "project-".
DerivedName(dir) ==
  IF OccursAt(dir, ProjectPrefix, 1)
  THEN SubSeq(dir, Len(ProjectPrefix) + 1, Len(dir))
  ELSE dir

\* What the push ends with (the last thing it tells the user).
OutNotLoggedIn == "You are not logged in"
OutNotProject == "not a valid Ongoku project"
OutNotRepo == "not a git repository"
OutNoSchemaFile == "Cannot push schema: No schema file found"
OutNoProject == "project not resolved"
OutSchemaFailed == "Failed to update schema"
OutSchemaOnly == "Schema updated successfully"
OutNoCredentials == "Failed to generate Git credentials"
OutThrown == "Push failed"
OutNothing == "No changes to commit"
OutPushed == "Successfully pushed changes to Ongoku."
OutPushFailed == "Failed to push changes."

\* The push is over with pushOutcome out.
PushEnds(out) == pushPc' = "done" /\ pushOutcome' = out

\* if (!await checkAuthentication()) return;
PushCheckAuth ==
  /\ pushPc = "start"
  /\ IF authenticated
     THEN pushPc' = "validate" /\ UNCHANGED pushOutcome
     ELSE PushEnds(OutNotLoggedIn)
  /\ UNCHANGED <<gitCredentials, schemaPush, decoded, schemaError>>
  /\ UNCHANGED <<resolverVars, credVars, wcVars, cpVars, pushInputs, pullVars,
                 cloneVars, apiCall, pullRet, loginVars>>

\* isOngokuProject, verifyGitRepository (a new GitClient: no expiry recorded)
\* and findSchemaFile, up to the schema-only abort for a missing schema file.
PushValidate ==
  /\ pushPc = "validate"
  /\ IF ~isOngoku THEN PushEnds(OutNotProject)
     ELSE IF ~IsGitRepository(isRepo) THEN PushEnds(OutNotRepo)
     ELSE IF ~hasSchemaFile /\ ~codeOnly /\ schemaOnly THEN PushEnds(OutNoSchemaFile)
     ELSE pushPc' = "identify" /\ UNCHANGED pushOutcome
  /\ UNCHANGED <<gitCredentials, schemaPush, decoded, schemaError>>
  /\ UNCHANGED <<resolverVars, credVars, wcVars, cpVars, pushInputs, pullVars,
                 cloneVars, apiCall, pullRet, loginVars>>

\* getProjectIdentifiers: the origin remote's URL ('' when there is no origin
\* or the remotes cannot be read) and the derived name.
PushIdentify ==
  /\ pushPc = "identify"
  /\ \E readable \in BOOLEAN :
       /\ remoteUrl' = IF readable /\ originUrl # Null THEN originUrl ELSE <<>>
       /\ Logged("getRemotes", IF readable THEN "ok" ELSE "failed")
  /\ projectName' = DerivedName(dirName)
  /\ pushPc' = "resolve"
  /\ UNCHANGED <<projects, found, listingCalls, fetched, candidates>>
  /\ UNCHANGED <<pushOutcome, gitCredentials, schemaPush, decoded, schemaError>>
  /\ UNCHANGED <<credVars, wcVars, pushInputs, pullVars, cloneVars, apiCall, pullRet, loginVars>>
  /\ UNCHANGED <<cpPc, cpMessage, cpRet, spinner, pushError, pullError, logged, pre,
                 retNoop, retPushed>>

\* The schema step runs whenever a schema file was found.
SendsSchemaWhenFound(hasFile, noSchema) == hasFile

\* if (schemaPath && !options.codeOnly)
SendsSchema(hasFile, noSchema) == hasFile /\ ~noSchema

\* const project = await findProject(...); if (!project) return null;
PushResolve ==
  /\ pushPc = "resolve"
  /\ \E answered \in BOOLEAN :
       /\ fetched' = IF answered THEN Append(fetched, GetProjects(projects, listed))
                     ELSE fetched
       /\ found' = IF answered THEN FindProject(listed', projectName, remoteUrl)
                   ELSE NoProject
       /\ candidates' = IF answered THEN Candidates(listed', found') ELSE Pending
       /\ Logged("getProjects", IF answered THEN "ok" ELSE "failed")
  /\ listingCalls' = listingCalls + 1
  /\ IF IsProject(found')
     THEN pushPc' = (IF SendsSchema(hasSchemaFile, codeOnly) THEN "schema"
                     ELSE IF schemaOnly THEN "schemaOnlyEnd" ELSE "creds")
          /\ UNCHANGED pushOutcome
     ELSE PushEnds(OutNoProject)
  /\ UNCHANGED <<projects, projectName, remoteUrl>>
  /\ UNCHANGED <<gitCredentials, schemaPush, decoded, schemaError>>
  /\ UNCHANGED <<credVars, wcVars, pushInputs, pullVars, cloneVars, apiCall, pullRet, loginVars>>
  /\ UNCHANGED <<cpPc, cpMessage, cpRet, spinner, pushError, pullError, logged, pre,
                 retNoop, retPushed>>

\* What a parser gives for a document it rejects.
ParseError == [threw |-> TRUE]

\* Schema file contents: YAML that is not JSON, JSON that is YAML too, JSON
\* that YAML rejects (a duplicated mapping key), text that is neither, and
\* the empty file.
DocYaml == "name: app"
DocJson == "{\"name\": \"app\"}"
DocJsonOnly == "{\"name\": \"old\", \"name\": \"app\"}"
DocNeither == "name: ["
DocEmpty == ""
Documents == {DocYaml, DocJson, DocJsonOnly, DocNeither, DocEmpty}

\* yaml.load(schemaContent) of js-yaml on these documents.
YamlLoad(doc) ==
  CASE doc = DocYaml -> [name |-> "app"]
    [] doc = DocJson -> [name |-> "app"]
    [] doc = DocEmpty -> [undefined |-> TRUE]
    [] OTHER -> ParseError

\* JSON.parse(schemaContent) on these documents.
JsonParse(doc) ==
  CASE doc = DocJson -> [name |-> "app"]
    [] doc = DocJsonOnly -> [name |-> "app"]
    [] OTHER -> ParseError

SchemaFormatError == "Schema file is neither valid YAML nor JSON"

\* Mutant of DecodeSchema: no JSON fallback.
DecodeSchemaYamlOnly(doc) ==
  IF YamlLoad(doc) # ParseError
  THEN [content |-> doc, ok |-> TRUE, value |-> YamlLoad(doc), error |-> None,
        tried |-> <<"yaml">>]
  ELSE [content |-> doc, ok |-> FALSE, value |-> ParseError,
        error |-> SchemaFormatError, tried |-> <<"yaml">>]

\* try { schema = yaml.load(c) } catch { try { schema = JSON.parse(c) }
\* catch { throw new Error('Schema file is neither valid YAML nor JSON') } }
DecodeSchema(doc) ==
  IF YamlLoad(doc) # ParseError
  THEN [content |-> doc, ok |-> TRUE, value |-> YamlLoad(doc), error |-> None,
        tried |-> <<"yaml">>]
  ELSE IF JsonParse(doc) # ParseError
  THEN [content |-> doc, ok |-> TRUE, value |-> JsonParse(doc), error |-> None,
        tried |-> <<"yaml", "json">>]
  ELSE [content |-> doc, ok |-> FALSE, value |-> ParseError,
        error |-> SchemaFormatError, tried |-> <<"yaml", "json">>]

\* What fs.readFileSync gives: a document, or it throws.
Unreadable == "<unreadable>"
ReadError == "cannot read the schema file"
SendError == "API Error"
SchemaFiles == Documents \cup {Unreadable}

\* Mutant of AbortsOnSchemaFailure: a failure of the schema step always ends the push.
AbortsAlways(only) == TRUE

\* catch (error) { spinner.fail(...); if (options.schemaOnly) { return null; } ... }
AbortsOnSchemaFailure(only) == only

\* The server is always told the CLI will commit.
SkipGitCommitAlways(only) == TRUE

\* const skipGitCommit = !options.schemaOnly;
SkipGitCommit(only) == ~only

\* Step 5: read and decode the schema file and send it with
\* skipGitCommit = !options.schemaOnly; a failure is reported and ends the
\* push only in schema-only mode.
PushSchema ==
  /\ pushPc = "schema"
  /\ \E file \in SchemaFiles, sent \in BOOLEAN :
       LET d == DecodeSchema(file)
           transmits == file # Unreadable /\ d.ok
           ok == transmits /\ sent
       IN
       /\ decoded' = IF file = Unreadable THEN Pending ELSE d
       /\ IF transmits
          THEN /\ Logged("pushProjectUpdates", IF sent THEN "ok" ELSE "failed")
               /\ schemaPush' = [id |-> found.id, schema |-> d.value,
                                 skipGitCommit |-> SkipGitCommit(schemaOnly)]
          ELSE UNCHANGED <<log, schemaPush>>
       /\ schemaError' = IF file = Unreadable THEN ReadError
                         ELSE IF ~d.ok THEN d.error
                         ELSE IF ~sent THEN SendError
                         ELSE None
       /\ IF ~ok /\ AbortsOnSchemaFailure(schemaOnly) THEN PushEnds(OutSchemaFailed)
          ELSE pushPc' = (IF schemaOnly THEN "schemaOnlyEnd" ELSE "creds")
               /\ UNCHANGED pushOutcome
  /\ UNCHANGED gitCredentials
  /\ UNCHANGED <<resolverVars, credVars, wcVars, pushInputs, pullVars,
                 cloneVars, apiCall, pullRet, loginVars>>
  /\ UNCHANGED <<cpPc, cpMessage, cpRet, spinner, pushError, pullError, logged, pre,
                 retNoop, retPushed>>

\* if (options.schemaOnly) { return null; }
PushSchemaOnlyEnd ==
  /\ pushPc = "schemaOnlyEnd"
  /\ PushEnds(OutSchemaOnly)
  /\ UNCHANGED <<gitCredentials, schemaPush, decoded, schemaError>>
  /\ UNCHANGED <<resolverVars, credVars, wcVars, cpVars, pushInputs, pullVars,
                 cloneVars, apiCall, pullRet, loginVars>>

\* What the token endpoint answers.  The declared answer is
\* { success, git_info: { token, repo_url, auth_url, expires_at } }; the
\* type is open, so a server may also nest a second git_info inside git_info.
FlatGitInfo(expiresAt) ==
  [token |-> <<"t", "o", "k">>, repo_url |-> UrlGithubProjX,
   auth_url |-> RemoteGithubProjX, expires_at |-> expiresAt]
NestedGitInfo(expiresAt) ==
  [token |-> <<"t", "o", "k">>, repo_url |-> UrlGithubProjX,
   auth_url |-> RemoteGithubProjX, expires_at |-> expiresAt,
   git_info |-> [token |-> <<"t", "o", "k">>, repo_url |-> UrlGithubProjX,
                 expires_at |-> expiresAt]]
NoGitInfo == [missing |-> TRUE]
TokenResponses ==
  {[success |-> FALSE, git_info |-> NoGitInfo],
   [success |-> TRUE, git_info |-> NoGitInfo]}
    \cup {[success |-> TRUE, git_info |-> FlatGitInfo(e)] : e \in {<<>>, <<ExpiryT>>}}
    \cup {[success |-> TRUE, git_info |-> NestedGitInfo(e)] : e \in {<<>>, <<ExpiryT>>}}

\* What getGitCredentials returns when it has nothing to return.
NoCredentials == [null |-> TRUE]
\* { success: true, valid: true, reused: true }
ReusedCredentials == [success |-> TRUE, valid |-> TRUE, reused |-> TRUE]

\* getGitCredentials without its isTokenValid() shortcut.
GetGitCredentialsAlwaysIssued(valid, answered, response) ==
  IF ~answered \/ ~response.success \/ response.git_info = NoGitInfo
  THEN NoCredentials
  ELSE response.git_info

\* getGitCredentials(api, project.id, spinner, git): valid is git.isTokenValid(),
\* answered whether api.getGitToken returned (rather than threw) response.
GetGitCredentials(valid, answered, response) ==
  IF valid THEN ReusedCredentials
  ELSE IF ~answered \/ ~response.success \/ response.git_info = NoGitInfo
       THEN NoCredentials
       ELSE response.git_info

\* The schema step placed after the credentials instead of before them.
AfterCredentialsSchema == "schema"

\* The step of the push that follows getGitCredentials: applying them.
AfterCredentials == "apply"

\* const gitCredentials = await getGitCredentials(...); if (!gitCredentials) return null;
PushCredentials ==
  /\ pushPc = "creds"
  /\ \E answered \in BOOLEAN, response \in TokenResponses :
       LET valid == IsTokenValid(tokenExpiry, now) IN
       /\ gitCredentials' = GetGitCredentials(valid, answered, response)
       /\ IF valid THEN UNCHANGED log
          ELSE Logged("getGitToken",
                      IF gitCredentials' = NoCredentials THEN "failed" ELSE "ok")
  /\ IF gitCredentials' = NoCredentials
     THEN PushEnds(OutNoCredentials)
     ELSE pushPc' = AfterCredentials /\ UNCHANGED pushOutcome
  /\ UNCHANGED <<schemaPush, decoded, schemaError>>
  /\ UNCHANGED <<resolverVars, credVars, wcVars, pushInputs, pullVars,
                 cloneVars, apiCall, pullRet, loginVars>>
  /\ UNCHANGED <<cpPc, cpMessage, cpRet, spinner, pushError, pullError, logged, pre,
                 retNoop, retPushed>>

\* gitCredentials.X, undefined when the object has no such property.
HasField(r, f) == f \in DOMAIN r

\* if (gitCredentials.reused) {...} else {
\*   const { token, repo_url, expires_at } = gitCredentials.git_info;
\*   await git.configureWithToken(token, repo_url, expires_at); }
\* Destructuring undefined throws a TypeError, which withErrorHandling reports
\* as 'Push failed'.  configureWithToken's result is not looked at.
PushApply ==
  /\ pushPc = "apply"
  /\ IF HasField(gitCredentials, "reused")
     THEN /\ pushPc' = "status"
          /\ UNCHANGED <<pushOutcome, credVars, log>>
     ELSE IF ~HasField(gitCredentials, "git_info")
     THEN /\ PushEnds(OutThrown)
          /\ UNCHANGED <<credVars, log>>
     ELSE /\ \E outcomeOfGit \in ConfigureOutcomes :
               /\ ConfigureWithToken(gitCredentials.git_info.token,
                                     gitCredentials.git_info.repo_url,
                                     gitCredentials.git_info.expires_at,
                                     outcomeOfGit)
               /\ Logged("configureWithToken", IF cfgRet' THEN "ok" ELSE "failed")
          /\ lastOp' = "configureWithToken"
          /\ UNCHANGED <<now, validRet>>
          /\ pushPc' = "status"
          /\ UNCHANGED pushOutcome
  /\ UNCHANGED <<gitCredentials, schemaPush, decoded, schemaError>>
  /\ UNCHANGED <<resolverVars, wcVars, pushInputs, pullVars, cloneVars,
                 apiCall, pullRet, loginVars>>
  /\ UNCHANGED <<cpPc, cpMessage, cpRet, spinner, pushError, pullError, logged, pre,
                 retNoop, retPushed>>

\* const status = await git.getStatus();
\* if (status.isClean()) { spinner.info('No changes to commit'); return null; }
\* ... const pushSuccess = await git.commitAndPush(commitMessage);
PushStatus ==
  /\ pushPc = "status"
  /\ \/ /\ IsClean
        /\ Logged("status", "ok")
        /\ PushEnds(OutNothing)
        /\ UNCHANGED <<cpPc, cpMessage, cpRet, spinner, pushError, pullError, logged, pre>>
     \/ /\ ~IsClean
        /\ CpEnter(optMessage)
        /\ Logged("status", "ok")
        /\ pushPc' = "commitAndPush"
        /\ UNCHANGED pushOutcome
     \/ /\ Logged("status", "failed")
        /\ PushEnds(OutThrown)
        /\ UNCHANGED <<cpPc, cpMessage, cpRet, spinner, pushError, pullError, logged, pre>>
  /\ UNCHANGED <<gitCredentials, schemaPush, decoded, schemaError, retNoop, retPushed>>
  /\ UNCHANGED <<resolverVars, credVars, wcVars, pushInputs, pullVars,
                 cloneVars, apiCall, pullRet, loginVars>>

\* if (pushSuccess) spinner.succeed(...) else spinner.fail(...); return true;
PushReport ==
  /\ pushPc = "commitAndPush"
  /\ cpPc = "done"
  /\ PushEnds(IF cpRet THEN OutPushed ELSE OutPushFailed)
  /\ cpPc' = "idle"
  /\ UNCHANGED <<cpMessage, cpRet, spinner, pushError, pullError, logged, pre, log,
                 retNoop, retPushed>>
  /\ UNCHANGED <<gitCredentials, schemaPush, decoded, schemaError>>
  /\ UNCHANGED <<resolverVars, credVars, wcVars, pushInputs, pullVars,
                 cloneVars, apiCall, pullRet, loginVars>>

\* Origin receives a commit while the push is synchronizing code.
PushRemoteAdvance ==
  /\ pushPc = "commitAndPush"
  /\ RemoteAdvance

(***************************************************************************)
(* Bounded inputs of the push command.                                     *)
(***************************************************************************)
DirProjectProjX ==
  <<"p", "r", "o", "j", "e", "c", "t", "-", "p", "r", "o", "j", "-", "x">>
DirNames == {DirProjectProjX, NameOther}

PushProject ==
  [id |-> UuidA, name |-> NameProjXUpper, github_repo_url |-> UrlGithubProjX]
PushListings == {<<PushProject>>}

InitPush ==
  /\ IdleCp
  /\ IdleClone
  /\ projects \in PushListings
  /\ projectName = <<>>
  /\ remoteUrl = <<>>
  /\ found = Pending
  /\ listingCalls = 0
  /\ fetched = <<>>
  /\ candidates = Pending
  /\ now = 0
  /\ tokenExpiry = <<>>
  /\ originUrl \in {Null, UrlGithubProjX}
  /\ credentialHelper = Null
  /\ cfgRet = FALSE
  /\ validRet = FALSE
  /\ lastOp = None
  /\ isRepo \in BOOLEAN
  /\ staged = {}
  /\ unstaged \in {1..k : k \in 0..(MaxEdits - 1)}
  /\ stash \in {<<>>, <<{0}>>}
  /\ head = <<>>
  /\ ahead = 0
  /\ remoteNew \in {0, 1}
  /\ remoteTotal = remoteNew
  /\ IdlePull
  /\ IdleClone
  /\ pushPc = "start"
  /\ authenticated \in BOOLEAN
  /\ isOngoku \in BOOLEAN
  /\ hasSchemaFile \in BOOLEAN
  /\ dirName \in DirNames
  /\ schemaOnly \in BOOLEAN
  /\ codeOnly \in BOOLEAN
  /\ optMessage = "fix"
  /\ gitCredentials = Pending
  /\ schemaPush = Pending
  /\ decoded = Pending
  /\ schemaError = None
  /\ pushOutcome = None

NextPush ==
  \/ PushCheckAuth \/ PushValidate \/ PushIdentify \/ PushResolve \/ PushSchema
  \/ PushSchemaOnlyEnd \/ PushCredentials \/ PushApply \/ PushStatus
  \/ CpStep \/ PushReport \/ PushRemoteAdvance

SpecPush == InitPush /\ [][NextPush]_vars

(***************************************************************************)
(* The credential step of a command (push.ts 113-126, the same lines of    *)
(* the pull command) on a GitClient in any state its methods can bring it  *)
(* to: getGitCredentials(api, project.id, spinner, git), then              *)
(* configureWithToken unless the answer is marked reused.                  *)
(***************************************************************************)
\* The step begins; log holds the calls of this step only.
CredStepBegins ==
  /\ pushPc = "idle"
  /\ pushPc' = "creds"
  /\ gitCredentials' = Pending
  /\ pushOutcome' = None
  /\ log' = <<>>
  /\ UNCHANGED <<schemaPush, decoded, schemaError>>
  /\ UNCHANGED <<resolverVars, credVars, wcVars, pushInputs, pullVars,
                 cloneVars, apiCall, pullRet, loginVars>>
  /\ UNCHANGED <<cpPc, cpMessage, cpRet, spinner, pushError, pullError, logged, pre,
                 retNoop, retPushed>>

\* The step is over: the command goes on (or has returned null).
CredStepEnds ==
  /\ pushPc \in {"status", "done"}
  /\ pushPc' = "idle"
  /\ UNCHANGED <<gitCredentials, schemaPush, decoded, schemaError, pushOutcome>>
  /\ UNCHANGED <<resolverVars, credVars, wcVars, cpVars, pushInputs, pullVars,
                 cloneVars, apiCall, pullRet, loginVars>>

\* Between two steps time passes and the GitClient may be configured.
BetweenCredSteps == pushPc = "idle" /\ (Tick \/ ConfigureCall)

NextCredStep ==
  \/ CredStepBegins \/ PushCredentials \/ PushApply \/ CredStepEnds
  \/ BetweenCredSteps

SpecCredStep == InitCred /\ [][NextCredStep]_vars

(***************************************************************************)
(* The pull command (pullCommand), one action per awaited step, and        *)
(* GitClient.pull (src/utils/common.ts).                                   *)
(***************************************************************************)
\* What a pull invocation leaves alone of the push command and of commitAndPush.
pullFrame == <<cloneVars, apiCall, pullRet, loginVars,
               pushPc, pushInputs, schemaPush, decoded, schemaError, pushOutcome,
               cpPc, cpMessage, cpRet, spinner, pushError, pullError, logged, pre,
               retNoop, retPushed>>

OutPullCanceled == "Pull canceled. Commit or stash your changes first."
OutPullThrown == "Pull failed"
OutPulled == "Successfully pulled latest changes."
OutPullFailed == "Failed to pull changes."

\* error.message of the errors withErrorHandling catches.
DestructureError ==
  "Cannot destructure property 'token' of 'gitCredentials.git_info' as it is undefined."
StatusError == "git status failed"

\* The invocation is over with outcome out, after printing error err.
PullEnds(out, err) ==
  /\ pullPc' = "done"
  /\ pullResults' = Append(pullResults, [outcome |-> out, error |-> err])

\* if (!await checkAuthentication()) return;
PullCheckAuth ==
  /\ pullPc = "start"
  /\ IF authenticated
     THEN pullPc' = "validate" /\ UNCHANGED pullResults
     ELSE PullEnds(OutNotLoggedIn, None)
  /\ UNCHANGED <<force, gitCredentials, log>>
  /\ UNCHANGED <<resolverVars, credVars, wcVars, pullFrame>>

\* isOngokuProject and verifyGitRepository (a new GitClient).
PullValidate ==
  /\ pullPc = "validate"
  /\ IF ~isOngoku THEN PullEnds(OutNotProject, None)
     ELSE IF ~IsGitRepository(isRepo) THEN PullEnds(OutNotRepo, None)
     ELSE pullPc' = "changes" /\ UNCHANGED pullResults
  /\ UNCHANGED <<force, gitCredentials, log>>
  /\ UNCHANGED <<resolverVars, credVars, wcVars, pullFrame>>

\* The pull halts on the answer to 'Do you want to proceed with pull anyway?'.
PullHaltsNever(clean, forced, proceed) == FALSE

\* if (!status.isClean() && !options.force) { ... if (!proceed) return null; }
PullHalts(clean, forced, proceed) == ~clean /\ ~forced /\ ~proceed

\* 2. git.getStatus(); with uncommitted changes and no --force the user is
\* asked whether to proceed.
PullCheckChanges ==
  /\ pullPc = "changes"
  /\ \/ /\ Logged("status", "failed")
        /\ PullEnds(OutPullThrown, StatusError)
     \/ /\ IsClean \/ force
        /\ Logged("status", "ok")
        /\ pullPc' = "identify"
        /\ UNCHANGED pullResults
     \/ /\ ~IsClean /\ ~force
        /\ \E proceed \in BOOLEAN :
             /\ log' = log \o <<[op |-> "status", res |-> "ok"],
                                [op |-> "prompt",
                                 res |-> IF proceed THEN "ok" ELSE "rejected"]>>
             /\ IF PullHalts(IsClean, force, proceed)
                THEN PullEnds(OutPullCanceled, None)
                ELSE pullPc' = "identify" /\ UNCHANGED pullResults
  /\ UNCHANGED <<force, gitCredentials>>
  /\ UNCHANGED <<resolverVars, credVars, wcVars, pullFrame>>

\* 3. getProjectIdentifiers
PullIdentify ==
  /\ pullPc = "identify"
  /\ \E readable \in BOOLEAN :
       /\ remoteUrl' = IF readable /\ originUrl # Null THEN originUrl ELSE <<>>
       /\ Logged("getRemotes", IF readable THEN "ok" ELSE "failed")
  /\ projectName' = DerivedName(dirName)
  /\ pullPc' = "resolve"
  /\ UNCHANGED <<projects, found, listingCalls, fetched, candidates>>
  /\ UNCHANGED <<force, pullResults, gitCredentials>>
  /\ UNCHANGED <<credVars, wcVars, pullFrame>>

\* 4. const project = await findProject(...); if (!project) return null;
PullResolve ==
  /\ pullPc = "resolve"
  /\ \E answered \in BOOLEAN :
       /\ fetched' = IF answered THEN Append(fetched, GetProjects(projects, listed))
                     ELSE fetched
       /\ found' = IF answered THEN FindProject(listed', projectName, remoteUrl)
                   ELSE NoProject
       /\ candidates' = IF answered THEN Candidates(listed', found') ELSE Pending
       /\ Logged("getProjects", IF answered THEN "ok" ELSE "failed")
  /\ listingCalls' = listingCalls + 1
  /\ IF IsProject(found')
     THEN pullPc' = "creds" /\ UNCHANGED pullResults
     ELSE PullEnds(OutNoProject, None)
  /\ UNCHANGED <<projects, projectName, remoteUrl>>
  /\ UNCHANGED <<force, gitCredentials>>
  /\ UNCHANGED <<credVars, wcVars, pullFrame>>

\* 5. const gitCredentials = await getGitCredentials(...); if (!gitCredentials) return null;
PullCredentials ==
  /\ pullPc = "creds"
  /\ \E answered \in BOOLEAN, response \in TokenResponses :
       LET valid == IsTokenValid(tokenExpiry, now) IN
       /\ gitCredentials' = GetGitCredentials(valid, answered, response)
       /\ IF valid THEN UNCHANGED log
          ELSE Logged("getGitToken",
                      IF gitCredentials' = NoCredentials THEN "failed" ELSE "ok")
  /\ IF gitCredentials' = NoCredentials
     THEN PullEnds(OutNoCredentials, None)
     ELSE pullPc' = "apply" /\ UNCHANGED pullResults
  /\ UNCHANGED force
  /\ UNCHANGED <<resolverVars, credVars, wcVars, pullFrame>>

\* if (gitCredentials.reused) {...} else {
\*   const { token, repo_url, expires_at } = gitCredentials.git_info;
\*   await git.configureWithToken(token, repo_url, expires_at); }
PullApply ==
  /\ pullPc = "apply"
  /\ IF HasField(gitCredentials, "reused")
     THEN /\ pullPc' = "pull"
          /\ UNCHANGED <<pullResults, credVars, log>>
     ELSE IF ~HasField(gitCredentials, "git_info")
     THEN /\ PullEnds(OutPullThrown, DestructureError)
          /\ UNCHANGED <<credVars, log>>
     ELSE /\ \E outcomeOfGit \in ConfigureOutcomes :
               /\ ConfigureWithToken(gitCredentials.git_info.token,
                                     gitCredentials.git_info.repo_url,
                                     gitCredentials.git_info.expires_at,
                                     outcomeOfGit)
               /\ Logged("configureWithToken", IF cfgRet' THEN "ok" ELSE "failed")
          /\ lastOp' = "configureWithToken"
          /\ UNCHANGED <<now, validRet>>
          /\ pullPc' = "pull"
          /\ UNCHANGED pullResults
  /\ UNCHANGED <<force, gitCredentials>>
  /\ UNCHANGED <<resolverVars, wcVars, pullFrame>>

\* git pull --no-rebase: nothing to do when origin has nothing new; otherwise
\* the local branch takes origin's commits, with a merge commit when it has
\* commits of its own.
GitPullMerge ==
  /\ head' = head \o [i \in 1..remoteNew |-> RemoteCommit]
               \o (IF remoteNew > 0 /\ ahead > 0
                   THEN <<[msg |-> "merge", edits |-> {}, by |-> "local"]>>
                   ELSE <<>>)
  /\ ahead' = IF remoteNew > 0 /\ ahead > 0 THEN ahead + 1 ELSE ahead
  /\ remoteNew' = 0
  /\ UNCHANGED <<isRepo, staged, unstaged, stash, remoteTotal>>

\* git refuses to merge over uncommitted changes to files the merge touches.
MergeMayBeRefused == remoteNew > 0 /\ ~IsClean /\ ahead = 0

\* GitClient.pull(): true when git pull --no-rebase succeeds, false when
\* the directory is not a repository or the pull fails.
GitClientPull(res) ==
  IF ~IsGitRepository(isRepo)
  THEN UNCHANGED log /\ UNCHANGED wcVars
  ELSE /\ Logged("pull", res)
       /\ IF res = "ok" THEN GitPullMerge ELSE UNCHANGED wcVars

\* What GitClient.pull() returns when its git pull ends res.
GitClientPullReturns(res) == IsGitRepository(isRepo) /\ res = "ok"

\* const pullSuccess = await git.pull(); and the report of its result.
PullGit ==
  /\ pullPc = "pull"
  /\ \E res \in {"ok", "rejected", "failed"} :
       /\ res = "rejected" => MergeMayBeRefused
       /\ GitClientPull(res)
       /\ PullEnds(IF GitClientPullReturns(res) THEN OutPulled ELSE OutPullFailed, None)
  /\ UNCHANGED <<force, gitCredentials>>
  /\ UNCHANGED <<resolverVars, credVars, pullFrame>>

\* Origin receives a commit while the pull command runs.
PullRemoteAdvance ==
  /\ pullPc = "pull"
  /\ RemoteAdvance

\* The command is run again: a new process, a new GitClient.
PullAgain ==
  /\ pullPc = "done"
  /\ Len(pullResults) < MaxPulls
  /\ pullPc' = "start"
  /\ projectName' = <<>>
  /\ remoteUrl' = <<>>
  /\ found' = Pending
  /\ listingCalls' = 0
  /\ fetched' = <<>>
  /\ candidates' = Pending
  /\ tokenExpiry' = <<>>
  /\ cfgRet' = FALSE
  /\ lastOp' = None
  /\ gitCredentials' = Pending
  /\ log' = <<>>
  /\ UNCHANGED <<projects, now, originUrl, credentialHelper, validRet>>
  /\ UNCHANGED <<force, pullResults>>
  /\ UNCHANGED <<wcVars, pullFrame>>

InitPull ==
  /\ IdleCp
  /\ IdleClone
  /\ pushPc = "idle"
  /\ authenticated \in BOOLEAN
  /\ isOngoku \in BOOLEAN
  /\ hasSchemaFile = FALSE
  /\ dirName \in DirNames
  /\ schemaOnly = FALSE
  /\ codeOnly = FALSE
  /\ optMessage = ""
  /\ gitCredentials = Pending
  /\ schemaPush = Pending
  /\ decoded = Pending
  /\ schemaError = None
  /\ pushOutcome = None
  /\ projects \in PushListings
  /\ projectName = <<>>
  /\ remoteUrl = <<>>
  /\ found = Pending
  /\ listingCalls = 0
  /\ fetched = <<>>
  /\ candidates = Pending
  /\ now = 0
  /\ tokenExpiry = <<>>
  /\ originUrl \in {Null, UrlGithubProjX}
  /\ credentialHelper = Null
  /\ cfgRet = FALSE
  /\ validRet = FALSE
  /\ lastOp = None
  /\ isRepo \in BOOLEAN
  /\ staged = {}
  /\ unstaged \in {1..k : k \in 0..(MaxEdits - 1)}
  /\ stash = <<>>
  /\ head = <<>>
  /\ ahead = 0
  /\ remoteNew \in {0, 1}
  /\ remoteTotal = remoteNew
  /\ pullPc = "start"
  /\ force \in BOOLEAN
  /\ pullResults = <<>>

NextPull ==
  \/ PullCheckAuth \/ PullValidate \/ PullCheckChanges \/ PullIdentify \/ PullResolve
  \/ PullCredentials \/ PullApply \/ PullGit \/ PullRemoteAdvance \/ PullAgain

SpecPull == InitPull /\ [][NextPull]_vars

(***************************************************************************)
(* The clone command (src/commands/clone.ts), one action per awaited step,  *)
(* and GitClient.clone (src/utils/common.ts).                               *)
(***************************************************************************)
\* What a clone invocation leaves alone of the other commands.
cloneFrame == <<pushVars, pullVars, wcVars, credVars, apiCall, pullRet, loginVars,
                cpPc, cpMessage, cpRet, spinner, pushError, pullError, logged, pre,
                retNoop, retPushed>>

OutCloneCanceled == "Clone canceled."
OutCloneThrown == "Clone failed"
OutNotReady == "is not ready yet"
OutNoRepository == "doesn't have a GitHub repository"
OutCloned == "cloned successfully"
OutCloneFailed == "Failed to clone repository."

\* The clone is over with cloneOutcome out.
CloneEnds(out) == clonePc' = "done" /\ cloneOutcome' = out

\* if (!await checkAuthentication()) return;
CloneCheckAuth ==
  /\ clonePc = "start"
  /\ IF authenticated
     THEN clonePc' = "target" /\ UNCHANGED cloneOutcome
     ELSE CloneEnds(OutNotLoggedIn)
  /\ UNCHANGED <<cloneArg, targetDir, cloneForce, log>>
  /\ UNCHANGED <<resolverVars, cloneFrame>>

\* if (dirContents.length > 0 && !options.force) and the answer to
\* 'Directory ... is not empty. Continue anyway?' is no.
CloneHalts(nonEmpty, forced, overwrite) == nonEmpty /\ ~forced /\ ~overwrite

\* 2. The target directory: asked about when it is not empty, made when it
\* does not exist (mkdirSync may throw, which ends the clone as 'Clone failed').
CloneTarget ==
  /\ clonePc = "target"
  /\ \/ /\ targetDir = "nonEmpty" /\ ~cloneForce
        /\ \E overwrite \in BOOLEAN :
             /\ Logged("prompt", IF overwrite THEN "ok" ELSE "rejected")
             /\ IF CloneHalts(targetDir = "nonEmpty", cloneForce, overwrite)
                THEN CloneEnds(OutCloneCanceled)
                ELSE clonePc' = "resolve" /\ UNCHANGED cloneOutcome
        /\ UNCHANGED targetDir
     \/ /\ targetDir = "empty" \/ (targetDir = "nonEmpty" /\ cloneForce)
        /\ clonePc' = "resolve"
        /\ UNCHANGED <<targetDir, cloneOutcome, log>>
     \/ /\ targetDir = "absent"
        /\ \E made \in BOOLEAN :
             /\ Logged("mkdir", IF made THEN "ok" ELSE "failed")
             /\ IF made
                THEN /\ targetDir' = "empty"
                     /\ clonePc' = "resolve"
                     /\ UNCHANGED cloneOutcome
                ELSE /\ CloneEnds(OutCloneThrown)
                     /\ UNCHANGED targetDir
  /\ UNCHANGED <<cloneArg, cloneForce>>
  /\ UNCHANGED <<resolverVars, cloneFrame>>

\* 3. const project = await findProject(api, projectName, undefined, spinner);
CloneResolve ==
  /\ clonePc = "resolve"
  /\ projectName' = cloneArg
  /\ remoteUrl' = Undefined
  /\ \E answered \in BOOLEAN :
       /\ fetched' = IF answered THEN Append(fetched, GetProjects(projects, listed))
                     ELSE fetched
       /\ found' = IF answered THEN FindProject(listed', projectName', remoteUrl')
                   ELSE NoProject
       /\ candidates' = IF answered THEN Candidates(listed', found') ELSE Pending
       /\ Logged("getProjects", IF answered THEN "ok" ELSE "failed")
  /\ listingCalls' = listingCalls + 1
  /\ IF IsProject(found')
     THEN clonePc' = "ready" /\ UNCHANGED cloneOutcome
     ELSE CloneEnds(OutNoProject)
  /\ UNCHANGED <<projects, cloneArg, targetDir, cloneForce>>
  /\ UNCHANGED cloneFrame

\* Mutant of NotReady: a project in any status is taken for ready.
NotReadyNever(project) == FALSE

\* project.status !== 'initialized' && project.status !== 'active'
NotReady(project) == project.status # "initialized" /\ project.status # "active"

\* 4. The project's status and repository URL.
CloneReady ==
  /\ clonePc = "ready"
  /\ IF NotReady(found) THEN CloneEnds(OutNotReady)
     ELSE IF ~Truthy(found.github_repo_url) THEN CloneEnds(OutNoRepository)
     ELSE clonePc' = "creds" /\ UNCHANGED cloneOutcome
  /\ UNCHANGED <<cloneArg, targetDir, cloneForce, log>>
  /\ UNCHANGED <<resolverVars, cloneFrame>>

\* 5. const gitCredentials = await getGitCredentials(api, project.id, spinner);
\* no GitClient is passed, so no held credential is looked at.
CloneCredentials ==
  /\ clonePc = "creds"
  /\ \E answered \in BOOLEAN, response \in TokenResponses :
       /\ gitCredentials' = GetGitCredentials(FALSE, answered, response)
       /\ Logged("getGitToken",
                 IF gitCredentials' = NoCredentials THEN "failed" ELSE "ok")
  /\ IF gitCredentials' = NoCredentials
     THEN CloneEnds(OutNoCredentials)
     ELSE clonePc' = "git" /\ UNCHANGED cloneOutcome
  /\ UNCHANGED <<cloneArg, targetDir, cloneForce>>
  /\ UNCHANGED <<resolverVars, wcVars, credVars, apiCall, pullVars, pullRet, loginVars>>
  /\ UNCHANGED <<pushPc, pushInputs, schemaPush, decoded, schemaError, pushOutcome>>
  /\ UNCHANGED <<cpPc, cpMessage, cpRet, spinner, pushError, pullError, logged, pre,
                 retNoop, retPushed>>

\* GitClient.clone(repoUrl, destination): true when git clone succeeded,
\* false (after 'Failed to clone repository') when it threw.
GitClientClone(res) ==
  /\ Logged("clone", res)
  /\ targetDir' = IF res = "ok" THEN "nonEmpty" ELSE targetDir

\* 6. const cloneSuccess = await git.clone(auth_url, targetDir); and the report.
CloneGit ==
  /\ clonePc = "git"
  /\ \E res \in {"ok", "failed"} :
       /\ GitClientClone(res)
       /\ CloneEnds(IF res = "ok" THEN OutCloned ELSE OutCloneFailed)
  /\ UNCHANGED <<cloneArg, cloneForce>>
  /\ UNCHANGED <<resolverVars, cloneFrame>>

\* The projects a clone may find: one project, in each status, with or
\* without a repository.
CloneStatuses == {"initialized", "active", "pending"}
CloneProjects ==
  {[id |-> UuidA, name |-> NameProjXUpper, github_repo_url |-> u, status |-> s] :
     u \in {Null, UrlGithubProjX}, s \in CloneStatuses}
CloneListings == {<<>>} \cup {<<r>> : r \in CloneProjects}
CloneArgs == {NameProjX, NameOther}

InitClone ==
  /\ IdleCp
  /\ IdleCred
  /\ IdleWc
  /\ IdlePull
  /\ pushPc = "idle"
  /\ authenticated \in BOOLEAN
  /\ isOngoku = TRUE
  /\ hasSchemaFile = FALSE
  /\ dirName = <<>>
  /\ schemaOnly = FALSE
  /\ codeOnly = FALSE
  /\ optMessage = ""
  /\ gitCredentials = Pending
  /\ schemaPush = Pending
  /\ decoded = Pending
  /\ schemaError = None
  /\ pushOutcome = None
  /\ projects \in CloneListings
  /\ projectName = <<>>
  /\ remoteUrl = <<>>
  /\ found = Pending
  /\ listingCalls = 0
  /\ fetched = <<>>
  /\ candidates = Pending
  /\ clonePc = "start"
  /\ cloneArg \in CloneArgs
  /\ targetDir \in {"absent", "empty", "nonEmpty"}
  /\ cloneForce \in BOOLEAN
  /\ cloneOutcome = None
  /\ apiCall = Pending
  /\ pullRet = <<>>
  /\ IdleLogin

NextClone ==
  \/ CloneCheckAuth \/ CloneTarget \/ CloneResolve \/ CloneReady
  \/ CloneCredentials \/ CloneGit

SpecClone == InitClone /\ [][NextClone]_vars

(***************************************************************************)
(* ApiClient.request (src/utils/common.ts) and the authentication check    *)
(* that opens the push, pull and clone commands.                           *)
(***************************************************************************)
AuthPrefix == <<"/", "a", "u", "t", "h">>
EpProjects == <<"/", "p", "r", "o", "j", "e", "c", "t", "s">>
EpGitToken == EpProjects \o <<"/", "1", "/", "t", "o", "k", "e", "n">>
EpAuthCode == AuthPrefix \o <<"/", "c", "o", "d", "e">>
EpAuthValidate == AuthPrefix \o <<"/", "v", "a", "l", "i", "d", "a", "t", "e">>
Endpoints == {EpProjects, EpGitToken, EpAuthCode, EpAuthValidate}

\* What keytar.getPassword yields: null, or the stored string.
AccountTokens == {Null, <<>>, <<"j", "w", "t">>}

\* How axios ends: a response with a status (the 500 with or without
\* data.error), or no response at all.
HttpAnswers == {"200", "401", "500 error", "500", "no response"}

MsgAuthRequired == "Authentication required. Please run ongoku login first."
MsgAuthFailed == "Authentication failed. Please run ongoku login to re-authenticate."
MsgApiErrorData == "API Error (status): data.error"
MsgApiError == "API Error: status data"
MsgNetwork == "Network Error: Could not connect to the Ongoku server"

\* endpoint.startsWith(prefix)
StartsWith(s, prefix) == OccursAt(s, prefix, 1)

\* The error request() throws for an axios outcome, None when it returns
\* response.data.
ErrorOf(answer) ==
  CASE answer = "200" -> None
    [] answer = "401" -> MsgAuthFailed
    [] answer = "500 error" -> MsgApiErrorData
    [] answer = "500" -> MsgApiError
    [] OTHER -> MsgNetwork

\* request() without its token test: the request is always sent.
RequestSentAnyway(endpoint, token, answer) ==
  [endpoint |-> endpoint, token |-> token, sent |-> 1, bearer |-> Truthy(token),
   status |-> answer, error |-> ErrorOf(answer)]

\* request(endpoint, ...): with no token and an endpoint not under /auth it
\* throws before calling axios; otherwise it calls axios once, with the
\* Authorization header when there is a token, and maps a failure to an error.
Request(endpoint, token, answer) ==
  IF ~Truthy(token) /\ ~StartsWith(endpoint, AuthPrefix)
  THEN [endpoint |-> endpoint, token |-> token, sent |-> 0, bearer |-> FALSE,
        status |-> None, error |-> MsgAuthRequired]
  ELSE [endpoint |-> endpoint, token |-> token, sent |-> 1, bearer |-> Truthy(token),
        status |-> answer, error |-> ErrorOf(answer)]

\* No command was invoked: ApiClient.request is called on its own.
NoCommandInvoked == pushPc = "idle" /\ pullPc = "idle" /\ clonePc = "idle"

\* A call of ApiClient.request; the token is the stored account token
\* (auth.getToken()), present exactly when auth.isAuthenticated() is true.
ApiRequest ==
  /\ NoCommandInvoked
  /\ \E endpoint \in Endpoints, token \in AccountTokens, answer \in HttpAnswers :
       /\ Truthy(token) = authenticated
       /\ apiCall' = Request(endpoint, token, answer)
  /\ UNCHANGED <<resolverVars, credVars, pushVars, pullVars, cloneVars, wcVars, cpVars>>
  /\ UNCHANGED <<pullRet, loginVars>>

\* An ApiClient with or without a stored account token, no command invoked.
InitRequest ==
  /\ IdleResolver
  /\ IdleCred
  /\ IdleWc
  /\ IdleCp
  /\ IdlePull
  /\ IdleClone
  /\ pushPc = "idle"
  /\ authenticated \in BOOLEAN
  /\ isOngoku = TRUE
  /\ hasSchemaFile = FALSE
  /\ dirName = <<>>
  /\ schemaOnly = FALSE
  /\ codeOnly = FALSE
  /\ optMessage = ""
  /\ gitCredentials = Pending
  /\ schemaPush = Pending
  /\ decoded = Pending
  /\ schemaError = None
  /\ pushOutcome = None

\* One of the three commands is invoked, or ApiClient.request is called.
InitAuth == InitPush \/ InitPull \/ InitClone \/ InitRequest

NextAuth == NextPush \/ NextPull \/ NextClone \/ ApiRequest

SpecAuth == InitAuth /\ [][NextAuth]_vars

(***************************************************************************)
(* The login command (src/commands/project.ts) and the account token store *)
(* auth (src/config/config.ts), one action per prompt of the command.      *)
(***************************************************************************)
MaxLogins == 2

OutAlreadyLoggedIn == "Already logged in. Use ongoku list to view your projects."
OutLoginCanceled == "Login canceled."
OutLoggedIn == "Authentication successful!"
OutAuthFailed == "Authentication failed:"

Dot == <<".">>

\* const [tokenPart] = token.split('.'); tokenPart.substring(0, 8)
UserIdOf(token) ==
  LET dot == IndexOf(token, Dot, 1)
      tokenPart == IF dot = 0 THEN token ELSE SubSeq(token, 1, dot - 1)
  IN SubSeq(tokenPart, 1, IF Len(tokenPart) < 8 THEN Len(tokenPart) ELSE 8)

\* The account tokens the service issues at the auth-code exchange.
IssuedAccountTokens == {<<"n", "e", "w", ".", "1">>, <<"j", "w", "t">>}

\* auth.getToken(): the stored token, null when the keychain cannot be read.
GetToken(readable) == IF readable THEN storedToken ELSE Null

\* auth.deleteToken(): when keytar deletes the entry config userId is deleted
\* too; a keychain failure is caught and leaves both.
DeleteToken(deleted) ==
  /\ storedToken' = IF deleted THEN Null ELSE storedToken
  /\ userId' = IF deleted THEN Null ELSE userId

\* The login is over with loginOutcome out.
LoginEnds(out) == loginPc' = "done" /\ loginOutcome' = out

loginFrame == <<resolverVars, credVars, pushVars, pullVars, cloneVars, wcVars, cpVars, pullRet>>

\* if (options.url) config.set('apiUrl', options.url);
\* const isAuthenticated = await auth.isAuthenticated();
LoginBegin ==
  /\ loginPc = "start"
  /\ \E url \in {"", "custom"} : apiUrl' = IF url # "" THEN url ELSE apiUrl
  /\ \E readable \in BOOLEAN :
       loginPc' = IF Truthy(GetToken(readable)) THEN "confirm" ELSE "proceed"
  /\ UNCHANGED <<storedToken, userId, priorToken, loginCount, loginOutcome, apiCall>>
  /\ UNCHANGED loginFrame

\* 'You are already logged in. Do you want to log in again?' and, when the
\* answer is yes, await auth.deleteToken().
LoginConfirm ==
  /\ loginPc = "confirm"
  /\ \E confirm \in BOOLEAN :
       IF ~confirm
       THEN LoginEnds(OutAlreadyLoggedIn) /\ UNCHANGED <<storedToken, userId>>
       ELSE /\ loginPc' = "proceed"
            /\ UNCHANGED loginOutcome
            /\ \E deleted \in BOOLEAN : DeleteToken(deleted)
  /\ UNCHANGED <<apiUrl, priorToken, loginCount, apiCall>>
  /\ UNCHANGED loginFrame

\* 'Would you like to continue?' and, when the answer is yes, open(loginUrl),
\* whose failure is caught by the command's catch.
LoginProceed ==
  /\ loginPc = "proceed"
  /\ \E proceed \in BOOLEAN, opened \in BOOLEAN :
       IF ~proceed THEN LoginEnds(OutLoginCanceled)
       ELSE IF ~opened THEN LoginEnds(OutAuthFailed)
       ELSE loginPc' = "exchange" /\ UNCHANGED loginOutcome
  /\ UNCHANGED <<storedToken, userId, apiUrl, priorToken, loginCount, apiCall>>
  /\ UNCHANGED loginFrame

\* const authResponse = await api.login(authCode);
\* await auth.setToken(authResponse.token);
\* A failed exchange and a failed keychain write both end in the catch.
LoginExchange ==
  /\ loginPc = "exchange"
  /\ \E readable \in BOOLEAN, answer \in HttpAnswers, token \in IssuedAccountTokens,
        written \in BOOLEAN :
       /\ apiCall' = Request(EpAuthCode, GetToken(readable), answer)
       /\ IF apiCall'.error # None
          THEN LoginEnds(OutAuthFailed) /\ UNCHANGED <<storedToken, userId>>
          ELSE IF ~written
          THEN LoginEnds(OutAuthFailed) /\ UNCHANGED <<storedToken, userId>>
          ELSE /\ storedToken' = token
               /\ userId' = UserIdOf(token)
               /\ LoginEnds(OutLoggedIn)
  /\ UNCHANGED <<apiUrl, priorToken, loginCount>>
  /\ UNCHANGED loginFrame

\* The command is run again.
LoginAgain ==
  /\ loginPc = "done"
  /\ loginCount < MaxLogins
  /\ loginPc' = "start"
  /\ loginCount' = loginCount + 1
  /\ priorToken' = storedToken
  /\ loginOutcome' = None
  /\ apiCall' = Pending
  /\ UNCHANGED <<storedToken, userId, apiUrl>>
  /\ UNCHANGED loginFrame

\* A user with or without a stored account token runs ongoku login.
InitLogin ==
  /\ IdleResolver
  /\ IdleCred
  /\ IdleWc
  /\ IdleCp
  /\ IdlePush
  /\ IdlePull
  /\ clonePc = "idle"
  /\ cloneArg = <<>>
  /\ targetDir = "absent"
  /\ cloneForce = FALSE
  /\ cloneOutcome = None
  /\ apiCall = Pending
  /\ pullRet = <<>>
  /\ loginPc = "start"
  /\ storedToken \in AccountTokens
  /\ userId = IF Truthy(storedToken) THEN UserIdOf(storedToken) ELSE Null
  /\ apiUrl = "default"
  /\ priorToken = storedToken
  /\ loginCount = 1
  /\ loginOutcome = None

NextLogin == LoginBegin \/ LoginConfirm \/ LoginProceed \/ LoginExchange \/ LoginAgain

SpecLogin == InitLogin /\ [][NextLogin]_vars

(***************************************************************************)
(* Directories that are or are not a repository or an Ongoku project:      *)
(* GitClient.commitAndPush and GitClient.pull called directly, and the     *)
(* push and pull commands.                                                 *)
(***************************************************************************)
\* git.pull() is called directly, once, on the working copy as it is.
CallPull ==
  /\ cpPc = "idle"
  /\ pullRet = <<>>
  /\ \E res \in {"ok", "rejected", "failed"} :
       /\ res = "rejected" => MergeMayBeRefused
       /\ GitClientPull(res)
       /\ pullRet' = <<GitClientPullReturns(res)>>
  /\ UNCHANGED <<cpPc, cpMessage, cpRet, spinner, pushError, pullError, logged, pre,
                 retNoop, retPushed>>
  /\ UNCHANGED <<resolverVars, credVars, pushVars, pullVars, cloneVars, apiCall, loginVars>>

InitRepo == InitGit \/ InitPush \/ InitPull

\* The GitClient is used directly: no command was invoked.
DirectUse == NoCommandInvoked /\ (NextGit \/ CallPull)

NextRepo == DirectUse \/ NextPush \/ NextPull

SpecRepo == InitRepo /\ [][NextRepo]_vars

(***************************************************************************)
(* Every use of the git layer: the GitClient used directly and the push,   *)
(* pull and clone commands.                                                *)
(***************************************************************************)
InitGitLayer == InitRepo \/ InitClone

NextGitLayer == NextRepo \/ NextClone

SpecGitLayer == InitGitLayer /\ [][NextGitLayer]_vars

(***************************************************************************)
(* Claims about GitClient.commitAndPush (checked under SpecGit, and under  *)
(* FairSpecGit where termination is claimed).                              *)
(***************************************************************************)
\* The call has returned (or is about to hand its result to the caller).
CpDone == cpPc = "done"

\* The call entered conflict recovery and a step of the recovery failed.
RecoveryFailed == CpDone /\ pullError # None

\* Whether operation op ended res at some point of the invocation.
Ended(op, res) == \E i \in 1..Len(log) : log[i] = [op |-> op, res |-> res]

\* Every edit somewhere in the working copy: working tree, index, stash or
\* a commit of the local branch.
PresentEdits == staged \cup unstaged \cup StashedEdits(stash) \cup EditsOf(head)

\* C2: when commitAndPush returns after a failed conflict recovery, every
\* edit the user had before the call (uncommitted or stashed) is still in a
\* local commit, in a stash entry or in the working tree.
C2_WorkPreserved ==
  RecoveryFailed => (pre.edits \cup pre.stashed) \subseteq PresentEdits

\* C2 witness: a call on a dirty working copy whose first push was rejected
\* and whose fast-forward pull was refused (true divergence) has returned.
C2_Witness ==
  /\ RecoveryFailed
  /\ pre.edits # {}
  /\ Ended("push", "rejected")
  /\ Ended("pull --ff-only", "rejected")

\* C3: in one call conflict recovery is entered at most once, push is
\* attempted at most twice, the second attempt only after the fast-forward
\* pull and the stash pop succeeded, and a running call always ends.
C3_Bounded ==
  /\ [](/\ Count("stash") <= 1
        /\ Count("push") <= 2
        /\ (Count("push") = 2 =>
              Ended("pull --ff-only", "ok") /\ Ended("stash pop", "ok")))
  /\ (CpRunning ~> CpDone)

\* C3 witness: a call that pushed twice has ended.
C3_Witness == CpDone /\ Count("push") = 2 /\ Count("stash") = 1

\* C4 as claimed: when the first push is rejected because origin has commits
\* the local branch lacks, origin does not advance again during the call and
\* no git operation fails for an outside reason, the call ends in success
\* after a fast-forward pull, a re-commit and a second push.
C4_SelfHealing ==
  ( /\ CpDone
    /\ Ended("push", "rejected")
    /\ log[3] = [op |-> "commit", res |-> "ok"]
    /\ log[4] = [op |-> "push", res |-> "rejected"]
    /\ remoteTotal = pre.remoteTotal
    /\ \A i \in 1..Len(log) : log[i].res # "failed" )
  => ( /\ cpRet = TRUE
       /\ Ended("pull --ff-only", "ok")
       /\ Ended("commit again", "ok")
       /\ Count("push") = 2
       /\ ahead = 0 )

\* C5: when a step of the recovery fails (the fast-forward pull or any other
\* step, the second push included), the call attempts one stash restore and
\* returns failure, and the error it prints is the first push's error.
C5_OriginalErrorSurfaced ==
  RecoveryFailed =>
    /\ cpRet = FALSE
    /\ spinner = MsgFailed
    /\ pushError = "push"
    /\ logged = pushError
    /\ Count("restore stash pop") = 1

\* C5 witness: the second push failed and the call has returned.
C5_Witness == RecoveryFailed /\ pullError = "push again" /\ Count("push") = 2

\* C6 as claimed: when commitAndPush fails after entering conflict recovery
\* the local branch is the one the call found, the user's changes are
\* uncommitted in the working tree and the stash is as it was.
C6_PreOperationState ==
  (CpDone /\ pushError # None /\ cpRet = FALSE) =>
    /\ head = pre.head
    /\ pre.edits \subseteq (staged \cup unstaged)
    /\ stash = pre.stash

\* The number of stash pops the call has performed.
PopsPerformed ==
  Cardinality({i \in 1..Len(log) :
                 log[i].op \in {"stash pop", "restore stash pop"} /\ log[i].res = "ok"})

\* The stash entries the call found are the oldest entries of the stash.
FoundStashKept ==
  /\ Len(stash) >= Len(pre.stash)
  /\ SubSeq(stash, Len(stash) - Len(pre.stash) + 1, Len(stash)) = pre.stash

\* C31: in a call of commitAndPush the stash pops performed never exceed the
\* stash entries the call created, so the entries that were in the stash
\* before the call are still there, unaltered, at every point of the call.
C31_StashDiscipline == (cpPc # "idle") => FoundStashKept

\* The call has returned after popping a stash entry that was there before it.
FoundStashPopped ==
  /\ CpDone
  /\ PopsPerformed >= 1
  /\ pre.stash # <<>>
  /\ Len(stash) < Len(pre.stash)

\* The call has returned after a failed recovery on a working copy whose
\* stash was empty: the pop of the recovery found nothing to pop.
NothingToPop ==
  /\ CpDone
  /\ pre.stash = <<>>
  /\ Ended("stash", "ok")
  /\ Ended("restore stash pop", "rejected")

\* C32: after the stash step of the recovery the commit made by the call is
\* unwound and its changes are in the stash: the local branch is the one the
\* call found, with no commit that origin lacks, so the fast-forward-only
\* pull starts from a prefix of origin's history.
C32_StashUnwindsCommit ==
  (cpPc = "ffpull") =>
    /\ head = pre.head
    /\ ahead = 0
    /\ pre.edits \subseteq StashedEdits(stash)
    /\ CanFastForward

\* The stash step has succeeded and the commit made by the call is still the
\* last commit of the local branch, the stash being as the call found it.
StashedWithCommitKept ==
  /\ cpPc = "ffpull"
  /\ Len(head) = Len(pre.head) + 1
  /\ head[Len(head)].edits = pre.edits
  /\ ahead > 0
  /\ stash = pre.stash

\* The log entry at position i is operation op ended ok, right after
\* operation before ended ok.
OkRightAfter(i, op, before) ==
  /\ log[i] = [op |-> op, res |-> "ok"]
  /\ i > 1
  /\ log[i - 1] = [op |-> before, res |-> "ok"]

\* C33: the commit made before the first push carries exactly the message
\* passed to commitAndPush, and the commit made during the recovery carries
\* 'Update from Ongoku CLI'; each is made unsigned, right after git add, and
\* holds everything that was uncommitted.
C33_CommitMessages ==
  (cpPc # "idle") =>
    /\ Ended("commit", "ok") =>
         /\ \E i \in 1..Len(log) : OkRightAfter(i, "commit", "add")
         /\ Len(head) > Len(pre.head)
         /\ head[Len(pre.head) + 1] =
              [msg |-> cpMessage, edits |-> pre.edits, by |-> "local", gpgSign |-> FALSE]
    /\ Ended("commit again", "ok") =>
         /\ \E i \in 1..Len(log) : OkRightAfter(i, "commit again", "add again")
         /\ head[Len(head)].msg = "Update from Ongoku CLI"
         /\ head[Len(head)].by = "local"
         /\ head[Len(head)].gpgSign = FALSE

\* C33 witness: a call has made both commits and returned; the caller's
\* message is not the fallback message.
C33_Witness ==
  /\ CpDone
  /\ Ended("commit", "ok")
  /\ Ended("commit again", "ok")
  /\ cpMessage # "Update from Ongoku CLI"
  /\ head[Len(pre.head) + 1].msg = cpMessage

\* C8 as claimed: the value returned for a clean working copy differs from
\* the value returned by a call that committed and pushed.
C8_NoopDistinctValue ==
  (retNoop # <<>> /\ retPushed # <<>>) => retNoop # retPushed

\* C8 as amended: on a clean working copy commitAndPush runs no git operation
\* but status, shows 'No changes to commit' and returns true, the very value
\* a call that committed and pushed returns (after showing 'Changes committed
\* and pushed successfully'): only the spinner text tells the two apart.
C8_NoopSameValue ==
  /\ (CpDone /\ pre.edits = {} /\ log = <<[op |-> "status", res |-> "ok"]>>)
       => (cpRet = TRUE /\ spinner = MsgNoChanges)
  /\ (CpDone /\ pre.edits = {} /\ isRepo) => Len(log) = 1
  /\ (CpDone /\ Ended("push", "ok")) => (cpRet = TRUE /\ spinner = MsgPushed)
  /\ retNoop \in {<<>>, <<TRUE>>}
  /\ retPushed \in {<<>>, <<TRUE>>}

\* C8 witness: a call on a clean working copy has returned after an earlier
\* call committed and pushed.
C8_Witness ==
  /\ CpDone
  /\ spinner = MsgNoChanges
  /\ retNoop = <<TRUE>>
  /\ retPushed = <<TRUE>>

\* The stash step of the recovery always finds a clean working tree (the
\* commit before it took every change), so it never creates a stash entry.
StashFindsCleanTree == cpPc = "stash" => IsClean

(***************************************************************************)
(* Claims about the push command (checked under SpecPush).                 *)
(***************************************************************************)
\* The push is over.
PushDone == pushPc = "done"

\* The working copy has been clean since the push began: it is clean and
\* nothing was committed (only commitAndPush changes it during a push).
CleanThroughout == isRepo /\ IsClean /\ head = <<>>

\* C7: an authenticated push without --schema-only whose project resolved,
\* whose token was issued and whose working copy is clean (and readable by
\* git status) ends with 'No changes to commit', having run no add, commit
\* or push.
C7_NoopPush ==
  (/\ PushDone
   /\ authenticated
   /\ ~schemaOnly
   /\ IsProject(found)
   /\ Ended("getGitToken", "ok")
   /\ ~Ended("status", "failed")
   /\ CleanThroughout)
    => /\ pushOutcome = OutNothing
       /\ Count("add") = 0
       /\ Count("commit") = 0
       /\ Count("push") = 0

\* The no-op push that does report 'No changes to commit'.
NoopPushReported ==
  PushDone /\ Ended("getGitToken", "ok") /\ CleanThroughout /\ pushOutcome = OutNothing

\* C13: whatever the schema file holds, decoding gives the YAML result when
\* YAML parsing succeeds (JSON is then not tried), the JSON result when YAML
\* parsing fails and the content is JSON, and fails with 'Schema file is
\* neither valid YAML nor JSON' exactly when both parsers fail; what was
\* decoded is what is sent.
C13_DecodeFallback ==
  decoded # Pending =>
    LET c == decoded.content
        yamlOk == YamlLoad(c) # ParseError
        jsonOk == JsonParse(c) # ParseError
    IN /\ yamlOk => /\ decoded.ok
                    /\ decoded.value = YamlLoad(c)
                    /\ decoded.tried = <<"yaml">>
       /\ (~yamlOk /\ jsonOk) => /\ decoded.ok
                                 /\ decoded.value = JsonParse(c)
                                 /\ decoded.tried = <<"yaml", "json">>
       /\ ~decoded.ok <=> (~yamlOk /\ ~jsonOk)
       /\ ~decoded.ok => /\ decoded.error = SchemaFormatError
                         /\ schemaError = SchemaFormatError
                         /\ schemaPush = Pending
       /\ decoded.ok => schemaPush.schema = decoded.value

\* C13 witness: a file that YAML rejects and JSON accepts was decoded by the
\* JSON parser and sent.
C13_Witness ==
  /\ decoded # Pending
  /\ decoded.content = DocJsonOnly
  /\ decoded.ok
  /\ decoded.tried = <<"yaml", "json">>
  /\ schemaPush # Pending
  /\ schemaPush.schema = [name |-> "app"]

\* C15: when the schema step fails (the file cannot be read or decoded, or
\* sending it fails) the push ends there exactly when --schema-only was
\* given; otherwise the failure is reported and the push goes on with the
\* git credentials.
C15_SchemaFailurePolicy ==
  /\ [][(pushPc = "schema" /\ pushPc' # "schema" /\ schemaError' # None) =>
          IF schemaOnly
          THEN pushPc' = "done" /\ pushOutcome' = OutSchemaFailed
          ELSE pushPc' = "creds" /\ pushOutcome' = None]_vars
  /\ [](pushOutcome = OutSchemaFailed => (schemaOnly /\ schemaError # None))
  /\ []((schemaError # None /\ schemaOnly) => (~Ended("getGitToken", "ok")
                                                /\ ~Ended("getGitToken", "failed")))

\* C15 witness: sending the schema failed in a push without --schema-only,
\* and the push has gone on to ask for git credentials.
C15_Witness ==
  /\ schemaError = SendError
  /\ ~schemaOnly
  /\ Ended("pushProjectUpdates", "failed")
  /\ Ended("getGitToken", "ok")

\* commitAndPush was called by the push and has returned.
SyncInvoked == pre # NoSnapshot /\ pushOutcome \in {OutPushed, OutPushFailed}

\* C16: a push without --schema-only whose project resolved and whose token
\* was issued (no valid credential was held) has applied the issued
\* credential with configureWithToken, once, and, when the working copy was
\* dirty, has then called commitAndPush.
C16_ApplyThenSync ==
  (/\ PushDone
   /\ ~schemaOnly
   /\ IsProject(found)
   /\ Ended("getGitToken", "ok")
   /\ ~Ended("status", "failed"))
    => /\ Count("configureWithToken") = 1
       /\ ~CleanThroughout => SyncInvoked
       /\ CleanThroughout => ~SyncInvoked

\* A push that did apply the issued credential and then called commitAndPush.
AppliedThenSynced ==
  PushDone /\ Ended("getGitToken", "ok") /\ Count("configureWithToken") = 1 /\ SyncInvoked

\* The push has run neither transport step: nothing was transmitted, no
\* token was asked for, no credential applied and commitAndPush not called.
NoSchemaSent == Count("pushProjectUpdates") = 0 /\ schemaPush = Pending
NoCodeSent ==
  /\ Count("getGitToken") = 0
  /\ Count("configureWithToken") = 0
  /\ Count("commit") = 0
  /\ Count("push") = 0
  /\ cpPc = "idle"

\* C24 as stated: the schema is transmitted only with a schema file and
\* without code-only; token issuance, git configuration and commit/push
\* happen only without schema-only; with both flags neither step runs; and
\* schema-only with no schema file ends the push before project resolution.
C24_ModeFlags ==
  /\ ~NoSchemaSent => (hasSchemaFile /\ ~codeOnly)
  /\ ~NoCodeSent => ~schemaOnly
  /\ (schemaOnly /\ codeOnly) => (NoSchemaSent /\ NoCodeSent)
  /\ (schemaOnly /\ ~hasSchemaFile) => listingCalls = 0

\* C24 amended: as C24, but schema-only with no schema file ends the push
\* before project resolution only when code-only was not requested too; with
\* both flags the project is resolved and the push then ends.
C24_ModeFlagsAmended ==
  /\ ~NoSchemaSent => (hasSchemaFile /\ ~codeOnly)
  /\ ~NoCodeSent => ~schemaOnly
  /\ (schemaOnly /\ codeOnly) => (NoSchemaSent /\ NoCodeSent)
  /\ (schemaOnly /\ ~codeOnly /\ ~hasSchemaFile) =>
       /\ listingCalls = 0
       /\ pushPc \in {"start", "validate", "done"}
       /\ pushPc = "done" => pushOutcome \in {OutNotLoggedIn, OutNotProject,
                                               OutNotRepo, OutNoSchemaFile}

\* C24 witness: a push with both flags and a schema file has resolved its
\* project and is over, having run neither transport step.
C24_Witness ==
  /\ pushPc = "done"
  /\ schemaOnly /\ codeOnly /\ hasSchemaFile
  /\ IsProject(found)
  /\ NoSchemaSent /\ NoCodeSent

\* A schema-only push without a schema file is over before any listing call.
SchemaOnlyWithoutFile ==
  /\ pushPc = "done"
  /\ pushOutcome = OutNoSchemaFile
  /\ listingCalls = 0

\* C25: every schema transmission of a push carries skipGitCommit equal to
\* the negation of --schema-only.
C25_SkipCommitFlag ==
  /\ schemaPush # Pending => schemaPush.skipGitCommit = ~schemaOnly
  /\ ~NoSchemaSent => schemaPush # Pending

\* C25 witness: a schema-only push has transmitted its schema with
\* skipGitCommit false.
C25_Witness ==
  /\ Ended("pushProjectUpdates", "ok")
  /\ schemaOnly
  /\ schemaPush # Pending
  /\ schemaPush.skipGitCommit = FALSE

\* A push without --schema-only has transmitted its schema with
\* skipGitCommit true.
SentWithSkipCommit ==
  /\ Ended("pushProjectUpdates", "ok")
  /\ ~schemaOnly
  /\ schemaPush # Pending
  /\ schemaPush.skipGitCommit = TRUE

\* C26: a push that has transmitted a schema with skipGitCommit true does
\* not end without having called commitAndPush.
C26_PromisedCommitAttempted ==
  (/\ PushDone
   /\ Ended("pushProjectUpdates", "ok")
   /\ schemaPush.skipGitCommit)
    => SyncInvoked

\* A push that transmitted a schema with skipGitCommit true and then called
\* commitAndPush.
PromisedAndSynced ==
  /\ PushDone
  /\ Ended("pushProjectUpdates", "ok")
  /\ schemaPush.skipGitCommit
  /\ SyncInvoked

\* The place of an event in the order of the push: reading the remotes,
\* the listing call, the schema transmission, the token issuance, the
\* credential application, then git status and commitAndPush's operations.
StepRank(op) ==
  CASE op = "getRemotes" -> 0
    [] op = "getProjects" -> 1
    [] op = "pushProjectUpdates" -> 2
    [] op = "getGitToken" -> 3
    [] op = "configureWithToken" -> 4
    [] OTHER -> 5

\* C27: in every push the events occur in the order listing call, schema
\* transmission, token issuance, credential application, commit/push: no
\* event of a later step precedes an event of an earlier one, each of the
\* first four happens at most once, and commitAndPush runs only in its own
\* step.
C27_PushStepOrder ==
  /\ \A i, j \in 1..Len(log) : i < j => StepRank(log[i].op) <= StepRank(log[j].op)
  /\ \A op \in {"getProjects", "pushProjectUpdates", "getGitToken",
                "configureWithToken"} : Count(op) <= 1
  /\ cpPc # "idle" => pushPc \in {"commitAndPush", "done"}

\* C27 witness: a push that went through all five steps is over.
C27_Witness ==
  /\ PushDone
  /\ Ended("getProjects", "ok")
  /\ Ended("pushProjectUpdates", "ok")
  /\ Ended("getGitToken", "ok")
  /\ Ended("configureWithToken", "ok")
  /\ Ended("push", "ok")

\* C18: at the moment the push calls commitAndPush a credential is held and
\* isTokenValid() is true, configureWithToken having run beforehand exactly
\* when isTokenValid() was false at the credential step.
C18_CredentialGating ==
  (pushPc = "commitAndPush" /\ cpPc = "isRepo") =>
    /\ tokenExpiry # <<>>
    /\ IsTokenValid(tokenExpiry, now)
    /\ Count("configureWithToken") = Count("getGitToken")

\* commitAndPush begins with a credential that is held and valid.
SyncStartsWithValidCredential ==
  /\ pushPc = "commitAndPush"
  /\ cpPc = "isRepo"
  /\ IsTokenValid(tokenExpiry, now)
  /\ Ended("configureWithToken", "ok")

\* The token service is asked at most once in a push.
TokenIssuedAtMostOnce == Count("getGitToken") <= 1

(***************************************************************************)
(* Claims about the credential step (checked under SpecCredStep).          *)
(***************************************************************************)
\* C20: in one credential step the token service is called at most once; it
\* is not called when the GitClient's held credential is valid
\* (isTokenValid() true): getGitCredentials then answers the reused marker,
\* and the step neither runs configureWithToken nor changes the credential.
C20_IssueOnceOrReuse ==
  /\ [](Count("getGitToken") <= 1)
  /\ [][(pushPc = "creds" /\ pushPc' # "creds") =>
          IF IsTokenValid(tokenExpiry, now)
          THEN /\ log' = log
               /\ gitCredentials' = ReusedCredentials
          ELSE /\ Count("getGitToken") = 0
               /\ log' = Append(log, log'[Len(log')])
               /\ log'[Len(log')].op = "getGitToken"]_vars
  /\ [][(/\ pushPc = "apply"
          /\ pushPc' # "apply"
          /\ IsTokenValid(tokenExpiry, now)) =>
          /\ gitCredentials = ReusedCredentials
          /\ UNCHANGED <<log, credVars>>]_vars

\* C20 witness: a credential step on a GitClient whose credential was valid
\* is over without a call of the token service or of configureWithToken.
C20_Witness ==
  /\ pushPc = "status"
  /\ gitCredentials = ReusedCredentials
  /\ IsTokenValid(tokenExpiry, now)
  /\ log = <<>>

(***************************************************************************)
(* Claims about the pull command (checked under SpecPull).                 *)
(***************************************************************************)
\* The current pull invocation is over.
PullDone == pullPc = "done"

\* How the last completed pull invocation ended.
LastPull == pullResults[Len(pullResults)]

\* C14: every pull (the first and the one run right after it) of a clean
\* working copy that is up to date with origin, whose project resolves,
\* whose token is issued and whose git status and git pull do not fail for
\* an outside reason, reports success and leaves the local branch and the
\* working tree as they were.
C14_IdempotentPull ==
  (/\ PullDone
   /\ IsClean
   /\ remoteTotal = 0
   /\ IsProject(found)
   /\ Ended("getGitToken", "ok")
   /\ ~Ended("status", "failed")
   /\ ~Ended("pull", "failed"))
    => /\ LastPull.outcome = OutPulled
       /\ head = <<>>
       /\ IsClean

\* A second pull in a row that does report success with nothing changed.
SecondPullSucceeded ==
  /\ PullDone
  /\ Len(pullResults) = 2
  /\ pullResults[1].outcome = OutPulled
  /\ pullResults[2].outcome = OutPulled
  /\ remoteTotal = 0
  /\ head = <<>>
  /\ IsClean

\* C17: a pull whose project resolved, whose dirty-tree check passed and
\* whose token was issued (no valid credential was held) has applied the
\* issued credential with configureWithToken, once, and has then called
\* GitClient.pull, once.
C17_ApplyThenPull ==
  (/\ PullDone
   /\ IsProject(found)
   /\ Ended("status", "ok")
   /\ Ended("getGitToken", "ok"))
    => /\ Count("configureWithToken") = 1
       /\ Count("pull") = 1
       /\ LastPull.outcome \in {OutPulled, OutPullFailed}

\* A pull that did apply the issued credential and then called GitClient.pull.
AppliedThenPulled ==
  /\ PullDone
  /\ Ended("getGitToken", "ok")
  /\ Count("configureWithToken") = 1
  /\ Count("pull") = 1

\* C21: GitClient.pull is called on a working copy with uncommitted changes
\* only when force was given or the prompt was answered yes; after the prompt
\* was answered no the pull is over as canceled, with no call of the token
\* service, of configureWithToken or of GitClient.pull.
C21_DirtyPullNeedsOverride ==
  /\ [][(pullPc = "pull" /\ pullPc' = "done" /\ ~IsClean) =>
          (force \/ Ended("prompt", "ok"))]_vars
  /\ [](Ended("prompt", "rejected") =>
          /\ PullDone
          /\ LastPull.outcome = OutPullCanceled
          /\ Count("getGitToken") = 0
          /\ Count("configureWithToken") = 0
          /\ Count("pull") = 0)

\* C21 witness: GitClient.pull has run on a dirty working copy, without
\* force, after the prompt was answered yes.
C21_Witness ==
  /\ PullDone
  /\ ~force
  /\ Ended("prompt", "ok")
  /\ Count("pull") = 1

\* The prompt was answered no and the pull is over.
PullDeclined == PullDone /\ Ended("prompt", "rejected")

\* C28: the pull makes its listing call before it checks the working copy
\* for uncommitted changes, so a pull canceled at the prompt has resolved its
\* project.
C28_ResolveBeforeDirtyCheck ==
  /\ \A i \in 1..Len(log) :
       log[i].op = "status" => \E j \in 1..(i - 1) : log[j].op = "getProjects"
  /\ (PullDone /\ LastPull.outcome = OutPullCanceled) =>
       (Count("getProjects") = 1 /\ found # Pending)

\* A pull has checked the working copy and made its listing call.
CheckedAndResolved ==
  /\ Ended("status", "ok")
  /\ Ended("getProjects", "ok")
  /\ IsProject(found)

\* C19: once configureWithToken has failed in a pull, GitClient.pull is not
\* called afterwards and the pull does not end reporting success.
C19_ApplyFailureTerminal ==
  Ended("configureWithToken", "failed") =>
    /\ Count("pull") = 0
    /\ PullDone => LastPull.outcome # OutPulled

\* A pull ended right after configureWithToken failed.
ApplyFailedPullOver ==
  /\ PullDone
  /\ Ended("configureWithToken", "failed")

(***************************************************************************)
(* Claims about authentication (checked under SpecAuth).                   *)
(***************************************************************************)
\* A command that is over ended telling the user to log in.
EndedNotLoggedIn ==
  /\ pushPc = "done" => pushOutcome = OutNotLoggedIn
  /\ (pullPc = "done" /\ pullResults # <<>>) => LastPull.outcome = OutNotLoggedIn
  /\ clonePc = "done" => cloneOutcome = OutNotLoggedIn

\* C22: with no account token stored, push, pull and clone go no further than
\* their authentication check: no listing call, token issuance, schema
\* transmission or git operation; ApiClient.request with no token for an
\* endpoint not under /auth throws 'Authentication required' without sending
\* a request; on a 401 it throws the re-login hint; and no call sends more
\* than one request.
C22_AuthFailuresTerminal ==
  /\ ~authenticated =>
       /\ pushPc \in {"idle", "start", "done"}
       /\ pullPc \in {"idle", "start", "done"}
       /\ clonePc \in {"idle", "start", "done"}
       /\ EndedNotLoggedIn
       /\ log = <<>>
       /\ listingCalls = 0
       /\ gitCredentials = Pending
       /\ schemaPush = Pending
       /\ cpPc = "idle"
  /\ apiCall # Pending =>
       /\ (~Truthy(apiCall.token) /\ ~StartsWith(apiCall.endpoint, AuthPrefix)) =>
            (apiCall.sent = 0 /\ apiCall.error = MsgAuthRequired)
       /\ apiCall.status = "401" => apiCall.error = MsgAuthFailed
       /\ apiCall.sent <= 1

\* C22 witness: with no token stored, the clone command is over at its
\* authentication check.
C22_Witness ==
  /\ ~authenticated
  /\ clonePc = "done"
  /\ cloneOutcome = OutNotLoggedIn

\* With no token stored, a request for the listing was refused unsent.
RefusedUnsent ==
  /\ apiCall # Pending
  /\ ~Truthy(apiCall.token)
  /\ apiCall.endpoint = EpProjects
  /\ apiCall.sent = 0

\* A request answered 401 has failed with the re-login hint.
Refused401 == apiCall # Pending /\ apiCall.status = "401" /\ apiCall.sent = 1

\* C23: when findProject yields no project (none matched, or the listing
\* call failed) the push, pull or clone is over, with no schema transmission,
\* no token issuance, no change to the git remote configuration and no
\* commit, push, pull or clone.
C23_FailFastUnresolved ==
  found \in {NotFound, NoProject} =>
    /\ pushPc \in {"idle", "done"}
    /\ pullPc \in {"idle", "done"}
    /\ clonePc \in {"idle", "done"}
    /\ Count("pushProjectUpdates") = 0
    /\ schemaPush = Pending
    /\ Count("getGitToken") = 0
    /\ gitCredentials = Pending
    /\ Count("configureWithToken") = 0
    /\ tokenExpiry = <<>>
    /\ cpPc = "idle"
    /\ Count("add") = 0
    /\ Count("commit") = 0
    /\ Count("push") = 0
    /\ Count("pull") = 0
    /\ Count("clone") = 0

\* C23 witness: a push whose listing was answered and matched no project is
\* over.
C23_Witness ==
  /\ pushPc = "done"
  /\ Ended("getProjects", "ok")
  /\ found = NotFound
  /\ pushOutcome = OutNoProject

\* A pull whose listing call failed is over.
PullListingFailed ==
  /\ pullPc = "done"
  /\ Ended("getProjects", "failed")
  /\ found = NoProject

(***************************************************************************)
(* Claims about the clone command (checked under SpecClone).               *)
(***************************************************************************)
\* The position of the first log entry of operation op, 0 when there is none.
FirstOf(op) ==
  IF \E i \in 1..Len(log) : log[i].op = op
  THEN CHOOSE i \in 1..Len(log) : log[i].op = op /\ \A j \in 1..(i - 1) : log[j].op # op
  ELSE 0

\* C36: an invocation of clone runs git clone at most once, and only after
\* the project resolved, with status initialized or active and a repository
\* URL, and a token was issued; a failed clone ends the invocation with
\* 'Failed to clone repository.'; when the user declines to continue into a
\* non-empty directory no listing call, token issuance or clone is made.
C36_CloneOnceWhenReady ==
  /\ Count("clone") <= 1
  /\ Count("clone") = 1 =>
       /\ IsProject(found)
       /\ found.status \in {"initialized", "active"}
       /\ Truthy(found.github_repo_url)
       /\ gitCredentials # NoCredentials
       /\ 0 < FirstOf("getProjects")
       /\ FirstOf("getProjects") < FirstOf("getGitToken")
       /\ FirstOf("getGitToken") < FirstOf("clone")
       /\ log[FirstOf("getProjects")].res = "ok"
       /\ log[FirstOf("getGitToken")].res = "ok"
       /\ clonePc = "done"
  /\ Ended("clone", "failed") => cloneOutcome = OutCloneFailed
  /\ Ended("clone", "ok") => cloneOutcome = OutCloned
  /\ Ended("prompt", "rejected") =>
       /\ clonePc = "done"
       /\ cloneOutcome = OutCloneCanceled
       /\ listingCalls = 0
       /\ Count("getProjects") = 0
       /\ Count("getGitToken") = 0
       /\ Count("clone") = 0

\* C36 witness: the clone of a ready project failed and the invocation is over.
C36_Witness ==
  /\ clonePc = "done"
  /\ Ended("clone", "failed")
  /\ cloneOutcome = OutCloneFailed
  /\ targetDir # "absent"

\* The user declined to continue into a non-empty directory.
CloneDeclined ==
  /\ clonePc = "done"
  /\ targetDir = "nonEmpty"
  /\ Ended("prompt", "rejected")

\* The user agreed to continue into a non-empty directory and the project
\* was cloned.
ClonedIntoNonEmpty ==
  /\ clonePc = "done"
  /\ Ended("prompt", "ok")
  /\ Ended("clone", "ok")

\* A resolved project that is not ready ended the invocation.
CloneNotReady == clonePc = "done" /\ cloneOutcome = OutNotReady

(***************************************************************************)
(* Claims about failures of the git layer (checked under SpecGitLayer).    *)
(***************************************************************************)
\* The git operations commitAndPush runs.
CpOps ==
  {"status", "add", "commit", "push", "stash", "pull --ff-only", "stash pop",
   "add again", "commit again", "restore stash pop"}

\* The log entries of git operations of commitAndPush that did not succeed.
CpFailures == {i \in 1..Len(log) : log[i].op \in CpOps /\ log[i].res # "ok"}

\* The first push failed and every operation of the recovery succeeded.
Recovered ==
  /\ \A i \in CpFailures :
       log[i].op = "push" /\ \A j \in 1..(i - 1) : log[j].op # "push"
  /\ Ended("stash", "ok")
  /\ Ended("pull --ff-only", "ok")
  /\ Ended("stash pop", "ok")
  /\ Ended("add again", "ok")
  /\ Ended("commit again", "ok")
  /\ log[Len(log)] = [op |-> "push", res |-> "ok"]

\* What holds of pull, clone, configureWithToken and the commands: pull and
\* clone report success only when their git command succeeded, a push, pull
\* or clone command in which an exception was raised ends with its
\* withErrorHandling message, and commitAndPush returns false when its last
\* git operation failed.
FailuresAreReported ==
  /\ CpDone => (cpRet \in BOOLEAN /\ (log # <<>> /\ log[Len(log)].res # "ok" => ~cpRet))
  /\ pullRet = <<TRUE>> => isRepo
  /\ (PullDone /\ LastPull.outcome = OutPulled) => Ended("pull", "ok")
  /\ (PullDone /\ ~Ended("pull", "ok") /\ Count("pull") = 1)
       => LastPull.outcome = OutPullFailed
  /\ (clonePc = "done" /\ cloneOutcome = OutCloned) => Ended("clone", "ok")
  /\ Ended("clone", "failed") => (clonePc = "done" /\ cloneOutcome = OutCloneFailed)
  /\ (pushPc # "idle" /\ Count("status") > 0 /\ log[FirstOf("status")].res = "failed")
       => (PushDone /\ pushOutcome = OutThrown)
  /\ (pullPc # "idle" /\ Ended("status", "failed"))
       => (PullDone /\ LastPull.outcome = OutPullThrown)
  /\ Ended("mkdir", "failed") => (clonePc = "done" /\ cloneOutcome = OutCloneThrown)

\* A call of configureWithToken or of pull made directly returns true only
\* after its git commands took effect.
DirectCallsReport ==
  [][/\ (lastOp' = "configureWithToken" /\ lastOp # lastOp' /\ cfgRet')
          => (originUrl' # Null /\ credentialHelper' = CacheHelper /\ tokenExpiry' # <<>>)
     /\ (pullRet = <<>> /\ pullRet' = <<TRUE>>)
          => log' = Append(log, [op |-> "pull", res |-> "ok"])
     /\ (pullRet = <<>> /\ pullRet' = <<FALSE>> /\ isRepo)
          => (Len(log') = Len(log) + 1 /\ log'[Len(log')].res # "ok")]_vars

\* C37 as claimed: commitAndPush, pull, clone and configureWithToken return
\* false when a git operation fails and true only when every git operation
\* on the path they took succeeded; an exception inside a command ends the
\* command with a null result.
C37_TrueOnlyWhenAllSucceeded ==
  /\ [](FailuresAreReported /\ ((CpDone /\ cpRet) => CpFailures = {}))
  /\ DirectCallsReport

\* C37 as amended: the same, except that commitAndPush also returns true
\* when its first push failed and every operation of the recovery that
\* followed succeeded.
C37_TrueOnlyWhenAllSucceededOrRecovered ==
  /\ [](FailuresAreReported /\ ((CpDone /\ cpRet) => (CpFailures = {} \/ Recovered)))
  /\ DirectCallsReport

\* C37 witness: commitAndPush has returned false after a git operation
\* other than a push failed.
C37_Witness ==
  /\ CpDone
  /\ ~cpRet
  /\ Ended("commit", "failed")

\* commitAndPush has returned true after its first push failed.
ReturnedTrueAfterFailedPush ==
  /\ CpDone
  /\ cpRet
  /\ CpFailures # {}
  /\ Recovered

(***************************************************************************)
(* Claims about the login command (checked under SpecLogin).               *)
(***************************************************************************)
\* C38: when a user who had an account token stored runs login, the stored
\* token is the one that was stored, at every point of the invocation, until
\* a new token has been obtained and stored: after a login canceled at
\* 'Would you like to continue?' or failed at the exchange the user is still
\* authenticated with the former token.
C38_TokenKeptUntilReplaced ==
  (loginPc # "idle" /\ Truthy(priorToken)) =>
    \/ storedToken = priorToken
    \/ /\ loginPc = "done"
       /\ loginOutcome = OutLoggedIn
       /\ storedToken \in IssuedAccountTokens

\* A user who was logged in has canceled the login at 'Would you like to
\* continue?' and no account token is stored any more.
CanceledAndLoggedOut ==
  /\ loginPc = "done"
  /\ loginOutcome = OutLoginCanceled
  /\ Truthy(priorToken)
  /\ storedToken = Null

\* A user who was logged in has a failed auth-code exchange behind them and
\* no account token is stored any more.
ExchangeFailedAndLoggedOut ==
  /\ loginPc = "done"
  /\ loginOutcome = OutAuthFailed
  /\ apiCall # Pending
  /\ Truthy(priorToken)
  /\ storedToken = Null

\* A user who was logged in has logged in again and a new token is stored.
LoggedInAgain ==
  /\ loginPc = "done"
  /\ loginOutcome = OutLoggedIn
  /\ Truthy(priorToken)
  /\ storedToken # priorToken

(***************************************************************************)
(* Claims about directories that are not a repository or not a project     *)
(* (checked under SpecRepo).                                               *)
(***************************************************************************)
\* No listing call, schema transmission or token issuance was made, no git
\* command was run and the working copy has no commit, nothing staged and
\* no credential configured.
NothingDone ==
  /\ listingCalls = 0
  /\ schemaPush = Pending
  /\ gitCredentials = Pending
  /\ log = <<>>
  /\ head = <<>>
  /\ ahead = 0
  /\ staged = {}
  /\ tokenExpiry = <<>>
  /\ credentialHelper = Null

\* C35: on a directory without .git, commitAndPush and pull return false
\* without running a git command, and the push and pull commands end at
\* their validation; on a directory without ongoku.yaml the push and pull
\* commands end at their validation as well: before any listing call, schema
\* transmission, token issuance or git command.
C35_NotARepository ==
  /\ ~isRepo =>
       /\ NothingDone
       /\ cpPc \in {"idle", "isRepo", "done"}
       /\ CpDone => (cpRet = FALSE /\ spinner = MsgNotRepo)
       /\ pullRet \in {<<>>, <<FALSE>>}
  /\ (~isRepo \/ ~isOngoku) =>
       /\ pushPc # "idle" =>
            /\ NothingDone
            /\ pushPc \in {"start", "validate", "done"}
            /\ PushDone => pushOutcome \in {OutNotLoggedIn, OutNotProject, OutNotRepo}
       /\ pullPc # "idle" =>
            /\ NothingDone
            /\ pullPc \in {"start", "validate", "done"}
            /\ PullDone => LastPull.outcome \in {OutNotLoggedIn, OutNotProject, OutNotRepo}

\* C35 witness: commitAndPush was called on a directory without .git that
\* holds an edited file, and has returned.
C35_Witness ==
  /\ ~isRepo
  /\ NoCommandInvoked
  /\ CpDone
  /\ unstaged # {}
  /\ cpRet = FALSE

\* git.pull() was called on a directory without .git and returned false.
PulledNoRepository == ~isRepo /\ pullRet = <<FALSE>>

\* git.pull() was called on a repository and returned true.
PulledRepository == isRepo /\ pullRet = <<TRUE>> /\ Ended("pull", "ok")

\* The push command ended on an Ongoku project without .git.
PushNoRepository == PushDone /\ isOngoku /\ ~isRepo /\ pushOutcome = OutNotRepo

\* The pull command ended on a repository without ongoku.yaml.
PullNoProject == PullDone /\ ~isOngoku /\ isRepo /\ LastPull.outcome = OutNotProject

(***************************************************************************)
(* Claims about the credential (checked under SpecCred).                   *)
(***************************************************************************)
\* C1: isTokenValid returns true exactly when an expiry has been recorded and
\* now < expiry - 5 minutes, and the call changes nothing else: not the
\* recorded expiry, the clock, the origin remote or the git configuration.
C1_IsValid ==
  [][IsTokenValidCall =>
       /\ validRet' = (tokenExpiry # <<>> /\ now + BufferMs < tokenExpiry[1])
       /\ UNCHANGED <<tokenExpiry, now, originUrl, credentialHelper, cfgRet>>]_vars

\* C1 witness: isTokenValid has just returned true one millisecond before
\* expiry - 5 minutes.
C1_Witness ==
  /\ lastOp = "isTokenValid"
  /\ validRet = TRUE
  /\ tokenExpiry # <<>>
  /\ now + BufferMs + 1 = tokenExpiry[1]

SchemeSep == <<":", "/", "/">>
Slash == <<"/">>

\* A URL with the token placed ahead of its host: scheme://token@host/...
TokenAheadOfHost(token, url) ==
  LET host == IndexOf(url, SchemeSep, 1) + Len(SchemeSep)
  IN SubSeq(url, 1, host - 1) \o token \o At \o SubSeq(url, host, Len(url))

\* C29: after configureWithToken reports success, the origin remote is the
\* repository URL passed with the token ahead of the host, the recorded
\* expiry is the expiresAt passed or, when none was passed, the time of the
\* call plus one hour, and isTokenValid() is true at exactly the instants
\* before that expiry minus 5 minutes.
C29_SuccessAppliesCredential ==
  [][(lastOp' = "configureWithToken" /\ cfgRet') =>
       /\ \E token \in Tokens, repoUrl \in IssuedRepoUrls :
            originUrl' = TokenAheadOfHost(token, repoUrl)
       /\ \E expiresAt \in ExpiresAtInputs :
            tokenExpiry' = IF expiresAt = <<>> THEN <<now + OneHourMs>> ELSE expiresAt
       /\ \A t \in Instants :
            IsTokenValid(tokenExpiry', t) <=> (t < tokenExpiry'[1] - BufferMs)]_vars

\* configureWithToken has reported success and origin carries the token.
ConfiguredWithToken ==
  /\ lastOp = "configureWithToken"
  /\ cfgRet
  /\ \E token \in Tokens : originUrl = TokenAheadOfHost(token, UrlGithubProjX)

\* configureWithToken has reported success and origin is the repository URL
\* as issued, with no token in it.
ConfiguredWithoutToken ==
  /\ lastOp = "configureWithToken"
  /\ cfgRet
  /\ originUrl = UrlHttpProjX

\* C30: a call of configureWithToken that reports failure records no
\* credential: when isTokenValid() was false before the call it is false
\* after it, whichever of set-url, the credential cache configuration and
\* the read-back of origin failed.
C30_FailureRecordsNothing ==
  [][(lastOp' = "configureWithToken" /\ ~cfgRet' /\ ~IsTokenValid(tokenExpiry, now))
       => ~IsTokenValid(tokenExpiry', now')]_vars

\* configureWithToken has reported failure at set-url or at the credential
\* cache configuration: nothing is recorded and isTokenValid() is false.
FailedBeforeRecording ==
  /\ lastOp = "configureWithToken"
  /\ ~cfgRet
  /\ tokenExpiry = <<>>
  /\ ~IsTokenValid(tokenExpiry, now)

\* configureWithToken has reported failure and isTokenValid() is true.
FailedAndValid ==
  /\ lastOp = "configureWithToken"
  /\ ~cfgRet
  /\ IsTokenValid(tokenExpiry, now)

(***************************************************************************)
(* Claims about project resolution (checked under SpecResolver).           *)
(***************************************************************************)
\* findProject has returned and its listing call succeeded.
Resolved == found # Pending /\ found # NoProject

\* C9: when the derived name is UUID-shaped and equals the id of a project A
\* of the listing, findProject returns A, also when another project B has a
\* name equal to it ignoring case, wherever A and B stand in the listing and
\* whatever the remote URL is.
C9_UuidMatchWins ==
  Resolved =>
    \A i, j \in 1..Len(projects) :
      ( /\ i # j
        /\ IsUuidShaped(projectName)
        /\ projects[i].id = projectName
        /\ ToLowerCase(projects[j].name) = ToLowerCase(projectName) )
      => found = projects[i]

\* C9 witness: B (matching by name) stands before A (matching by id), a
\* remote URL is present, and A was returned.
C9_Witness ==
  /\ Resolved
  /\ Truthy(remoteUrl)
  /\ \E i, j \in 1..Len(projects) :
       /\ j < i
       /\ IsUuidShaped(projectName)
       /\ projects[i].id = projectName
       /\ ToLowerCase(projects[j].name) = ToLowerCase(projectName)
       /\ found = projects[i]

\* The part of a URL after its host, for any host (the claim's "path segment").
PathAfterHost(url) ==
  LET host == IndexOf(url, SchemeSep, 1) + Len(SchemeSep)
      slash == IndexOf(url, Slash, host)
  IN IF slash = 0 THEN <<>> ELSE SubSeq(url, slash + 1, Len(url))

\* A project whose repository URL's path after the host occurs in the remote URL.
PathMatches(p, remote) ==
  /\ IsProject(p)
  /\ Truthy(p.github_repo_url)
  /\ Includes(remote, PathAfterHost(p.github_repo_url))

GithubPathMatches(p, remote) ==
  /\ Truthy(p.github_repo_url)
  /\ IndexOf(p.github_repo_url, GithubSep, 1) # 0
  /\ Includes(remote, SplitSecond(p.github_repo_url, GithubSep))

\* What step 2 accepts: a github.com path occurring in the remote URL, or a
\* repository URL without 'github.com/' when the remote URL contains the
\* text "undefined".
Step2Accepts(p, remote) ==
  \/ GithubPathMatches(p, remote)
  \/ /\ Truthy(p.github_repo_url)
     /\ IndexOf(p.github_repo_url, GithubSep, 1) = 0
     /\ Includes(remote, StrUndefined)

StepTest(step, p, name, remote) ==
  CASE step = 1 -> IsUuidShaped(name) /\ MatchesId(p, name)
    [] step = 2 -> Truthy(remote) /\ MatchesUrl(p, remote)
    [] step = 3 -> MatchesName(p, name)
    [] OTHER -> FALSE

\* The step that matches: the first whose test some project of the listing
\* passes, 0 when there is none.
MatchingStep(list, name, remote) ==
  LET Some(step) == \E i \in 1..Len(list) : StepTest(step, list[i], name, remote)
  IN IF Some(1) THEN 1 ELSE IF Some(2) THEN 2 ELSE IF Some(3) THEN 3 ELSE 0

\* The listings that hold the projects of list in another order.
Reorderings(list) ==
  {[i \in 1..Len(list) |-> list[f[i]]] :
     f \in {g \in [1..Len(list) -> 1..Len(list)] :
              \A i, j \in 1..Len(list) : i # j => g[i] # g[j]}}

\* C34: the project findProject returns is the first project of the listing,
\* in listing order, that passes the test of the step that matches; on a
\* permuted listing it returns a project that passes that same test.
C34_FirstInListingOrder ==
  (Resolved /\ found # NotFound) =>
    LET step == MatchingStep(listed, projectName, remoteUrl)
        Tied(p) == StepTest(step, p, projectName, remoteUrl)
    IN /\ step # 0
       /\ \E i \in 1..Len(listed) :
            /\ found = listed[i]
            /\ Tied(listed[i])
            /\ \A j \in 1..(i - 1) : ~Tied(listed[j])
       /\ \A other \in Reorderings(listed) :
            LET r == FindProject(other, projectName, remoteUrl)
            IN /\ MatchingStep(other, projectName, remoteUrl) = step
               /\ Tied(r)
               /\ \E i \in 1..Len(other) :
                    r = other[i] /\ \A j \in 1..(i - 1) : ~Tied(other[j])

\* C34 witness: two different projects of the listing have the derived name
\* (ignoring case), no earlier step matches, and the first was returned.
C34_Witness ==
  /\ Resolved
  /\ Len(listed) = 2
  /\ listed[1] # listed[2]
  /\ MatchingStep(listed, projectName, remoteUrl) = 3
  /\ MatchesName(listed[1], projectName)
  /\ MatchesName(listed[2], projectName)
  /\ found = listed[1]

\* Two projects of the listing pass the repository URL test and the first
\* was returned.
TiedByUrl ==
  /\ Resolved
  /\ Len(listed) = 2
  /\ MatchingStep(listed, projectName, remoteUrl) = 2
  /\ MatchesUrl(listed[1], remoteUrl)
  /\ MatchesUrl(listed[2], remoteUrl)
  /\ found = listed[1]

\* C12: every invocation of findProject makes exactly one listing call
\* (whether it ends with a project, not found or a failed call), nothing
\* else makes one, and an invocation whose call is answered works on the
\* listing the service holds at that moment, not on one fetched earlier.
C12_OneFreshListing ==
  [][IF found = Pending /\ found' # Pending
     THEN /\ listingCalls' = listingCalls + 1
          /\ found' # NoProject =>
               /\ Len(fetched') = Len(fetched) + 1
               /\ listed' = projects
               /\ found' = FindProject(projects, projectName, remoteUrl)
     ELSE UNCHANGED <<listingCalls, fetched>>]_vars

\* C12 witness: a second resolution has returned, and the listing it worked
\* on is the service's current one and differs from the first call's.
C12_Witness ==
  /\ listingCalls = 2
  /\ Len(fetched) = 2
  /\ fetched[1] # fetched[2]
  /\ fetched[2] = projects
  /\ found # Pending
  /\ found # FindProject(fetched[1], projectName, remoteUrl)
====
